---- MODULE Spec2Model ----
(***************************************************************************)
(* Goldfish turn engine of mtg-commander-sim: GameState (zones, mana pool, *)
(* per-turn trackers) and GameEngine (start_game, step, the main-phase     *)
(* fixed-point loop, fetch-land resolution), src/src/core/engine.py, with  *)
(* the Card properties of src/src/core/models.py.                          *)
(*                                                                         *)
(* A card instance is a number (its position in the deck handed to         *)
(* start_game); what Python's == on two Card objects compares (pydantic    *)
(* field equality) is Val(i): list.remove, `in` and == go by Val, while    *)
(* the tapped_objects set goes by id(), i.e. by the instance number.       *)
(***************************************************************************)
EXTENDS Integers, Sequences, FiniteSets, TLC

VARIABLES
    deck,                    \* instance number -> kind of card: the list of Card objects the game is built from
    forced,                  \* instances whose tags list got "TAPPED_ENTRY" appended by a fetch
    state,                   \* the GameState object (engine.state)
    pc,                      \* where the engine stands inside step(); "api" for a directly driven GameState
    tapped_objects,          \* local of _main_phase_heuristic: set of id()s
    mana_added_this_loop,    \* local of the while loop
    spell_cast_this_loop,    \* local of the while loop
    call,                    \* the last GameState call made: [op, card, cost]
    ret,                     \* what that call returned (Ret)
    hist,                    \* bookkeeping for the properties (never read by the program)
    game_log,                \* GameEngine.game_log: the events appended by _log_event
    export_mode,             \* GameEngine.export_mode: "detailed" or "summary"
    mc_stats,                \* GameEngine._mc_stats: the statistics run_simulation returns
    batch,                   \* the batch the game belongs to: the template deck's tags and the games run
    tagged,                  \* a caller of assign_tags: its arguments, STATIC_CARD_TAGS and the lists returned
    built,                   \* a caller of Deck(...): its arguments and what the construction gave
    turns,                   \* the turns argument of run_simulation / run_turns
    fetching                 \* a call of fetch_card_from_scryfall: its arguments, requests, waits and result

vars == <<deck, forced, state, pc, tapped_objects, mana_added_this_loop,
          spell_cast_this_loop, call, ret, hist, game_log,
          export_mode, mc_stats, batch, tagged, built, turns, fetching>>

None == 0

----------------------------------------------------------------------------
(* Bounds of the model *)

\* turns a game is run for (run_turns(n))
MaxTurns == 3
\* cards left in the library after the opening hand
LibSize == 3
\* cards of a deck that are not the deck's filler card
MaxSpecials == 2
\* size of the decks too small to leave a library after the opening hand
SmallDeck == 3
\* cards a directly driven GameState is built with
ApiCards == 2
\* cap on the total mana a direct caller puts into the pool
MaxMana == 2
\* cleanups a directly driven GameState goes through
ApiTurns == 1
FairSpecials == 1
\* games of a batch (iterations)
Iterations == 2
\* turns of the games that reach the turn-4 statistics
LongTurns == 4
\* largest max_retries handed to fetch_card_from_scryfall
MaxRetries == 6
\* phrases of a rules text handed to assign_tags
MaxPhrases == 2
\* calls of assign_tags a caller makes with the same arguments
MaxCalls == 2
\* length of the cards list handed to Deck(...)
MaxCards == 101

(* Program constants *)

\* range(7): size of the opening hand
OpeningHandSize == 7
\* validate_deck_size: the cards of a deck besides the commander
DeckCards == 99
\* fetch_card_from_scryfall: max_retries: int = 5
DefaultMaxRetries == 5

----------------------------------------------------------------------------
(* Cards (src/src/core/models.py) *)

Symbols == {"colorless", "R", "G"}

NoCost == [s \in Symbols |-> 0]

Cost(c, r, g) == [s \in Symbols |-> CASE s = "colorless" -> c [] s = "R" -> r [] s = "G" -> g]

\* The card kinds of the model: the fields of Card that the engine reads.
\* type_line is the set of words of the type line, text_T is `"{T}" in oracle_text`.
CardData ==
    [ Forest  |-> [type_line |-> {"Basic", "Land", "Forest"}, mana_cost |-> NoCost, cmc |-> 0,
                   tags |-> {"LAND"}, text_T |-> TRUE],
      Wilds   |-> [type_line |-> {"Land"}, mana_cost |-> NoCost, cmc |-> 0,
                   tags |-> {"LAND", "FETCH_LAND", "RAMP"}, text_T |-> TRUE],
      Expanse |-> [type_line |-> {"Land"}, mana_cost |-> NoCost, cmc |-> 0,
                   tags |-> {"LAND", "FETCH_LAND", "TAPPED_ENTRY"}, text_T |-> TRUE],
      Gorge   |-> [type_line |-> {"Land"}, mana_cost |-> NoCost, cmc |-> 0,
                   tags |-> {"LAND", "TAPPED_ENTRY", "COND_FASTLAND"}, text_T |-> TRUE],
      SolRing |-> [type_line |-> {"Artifact"}, mana_cost |-> Cost(1, 0, 0), cmc |-> 1,
                   tags |-> {"ARTIFACT", "MANA_ROCK", "RAMP"}, text_T |-> TRUE],
      ManaCrypt |-> [type_line |-> {"Artifact"}, mana_cost |-> NoCost, cmc |-> 0,
                   tags |-> {"ARTIFACT", "MANA_ROCK", "RAMP"}, text_T |-> TRUE],
      Bear    |-> [type_line |-> {"Creature"}, mana_cost |-> Cost(1, 0, 1), cmc |-> 2,
                   tags |-> {"CREATURE"}, text_T |-> FALSE],
      Bolt    |-> [type_line |-> {"Instant"}, mana_cost |-> Cost(0, 1, 0), cmc |-> 1,
                   tags |-> {"INSTANT", "REMOVAL"}, text_T |-> FALSE],
      Kenrith |-> [type_line |-> {"Legendary", "Creature"}, mana_cost |-> Cost(4, 0, 1), cmc |-> 5,
                   tags |-> {"CREATURE"}, text_T |-> FALSE],
      Seat    |-> [type_line |-> {"Artifact", "Land"}, mana_cost |-> NoCost, cmc |-> 0,
                   tags |-> {"LAND", "ARTIFACT", "MANA_ROCK", "RAMP"}, text_T |-> TRUE],
      Diamond |-> [type_line |-> {"Artifact"}, mana_cost |-> Cost(1, 0, 0), cmc |-> 1,
                   tags |-> {"ARTIFACT", "MANA_ROCK", "RAMP", "TAPPED_ENTRY"}, text_T |-> TRUE],
      Manakin |-> [type_line |-> {"Artifact", "Creature"}, mana_cost |-> Cost(1, 0, 0), cmc |-> 1,
                   tags |-> {"ARTIFACT", "CREATURE", "MANA_ROCK", "RAMP"}, text_T |-> TRUE],
      Cabin   |-> [type_line |-> {"Land", "Forest"}, mana_cost |-> NoCost, cmc |-> 0,
                   tags |-> {"LAND", "TAPPED_ENTRY", "COND_COUNT_3_FOREST"}, text_T |-> TRUE] ]

\* the kinds of the three-turn games
Kinds == {"Forest", "Wilds", "Expanse", "Gorge", "SolRing", "ManaCrypt", "Bear", "Bolt", "Kenrith"}

type_line(i) == CardData[deck[i]].type_line
mana_cost(i) == CardData[deck[i]].mana_cost
cmc(i) == CardData[deck[i]].cmc
text_T(i) == CardData[deck[i]].text_T

\* card.tags of an instance: the template's tags plus a forced TAPPED_ENTRY
tags(i) == CardData[deck[i]].tags \cup (IF i \in forced THEN {"TAPPED_ENTRY"} ELSE {})

\* Card.is_land: "Land" in type_line
is_land(i) == "Land" \in type_line(i)

\* Card.is_permanent: not Instant, not Sorcery
is_permanent(i) == ~("Instant" \in type_line(i) \/ "Sorcery" \in type_line(i))

\* What Card.__eq__ compares: every field; only tags differ between copies of a kind
Val(i) == <<deck[i], i \in forced>>

\* card == other
Eq(i, j) == Val(i) = Val(j)

----------------------------------------------------------------------------
(* Python lists *)

\* card in lst
In(i, lst) == \E k \in 1..Len(lst) : Eq(lst[k], i)

\* index of the first element equal to card
FirstEq(i, lst) == CHOOSE k \in 1..Len(lst) : Eq(lst[k], i) /\ \A m \in 1..(k - 1) : ~Eq(lst[m], i)

\* lst without its k-th element
DropAt(lst, k) == [m \in 1..(Len(lst) - 1) |-> IF m < k THEN lst[m] ELSE lst[m + 1]]

\* lst.remove(card): drops the first element equal to card
Remove(lst, i) == DropAt(lst, FirstEq(i, lst))

\* [x for x in lst if P(x)]
Filter(lst, P(_)) == SelectSeq(lst, P)

Range(lst) == {lst[k] : k \in 1..Len(lst)}

RECURSIVE SumOver(_, _)
SumOver(f, S) == IF S = {} THEN 0 ELSE LET x == CHOOSE y \in S : TRUE IN f[x] + SumOver(f, S \ {x})

\* sum(d.values())
Total(d) == SumOver(d, DOMAIN d)

\* random.shuffle(lst): every ordering of the same elements
Shuffles(lst) ==
    LET n == Len(lst)
    IN  {[k \in 1..n |-> lst[p[k]]] : p \in {q \in [1..n -> 1..n] : \A a, b \in 1..n : a # b => q[a] # q[b]}}

----------------------------------------------------------------------------
(* GameState (src/src/core/engine.py, class GameState) *)

\* GameState.__init__
NewGameState ==
    [ library |-> <<>>, hand |-> <<>>, battlefield |-> <<>>, graveyard |-> <<>>,
      mana_pool |-> NoCost, turn_counter |-> 0, land_played_this_turn |-> None,
      cards_played_this_turn |-> <<>>, commander |-> "None" ]

\* What a call returned: True, False, None, a Card, or the exception it raised
Ret(v) == [v |-> v, card |-> None]

RetCard(i) == [v |-> "Card", card |-> i]

\* A call's outcome: the GameState after it and what it returned
Out(s, r) == [s |-> s, r |-> r]

\* GameState.get_total_mana
get_total_mana(s) == Total(s.mana_pool)

\* GameState.can_afford: totals only
can_afford(s, cost) == get_total_mana(s) >= Total(cost)

\* draw_card that appends the head of the library to the hand without popping it
draw_card_no_pop(s) ==
    IF s.library = <<>>
    THEN Out(s, Ret("None"))
    ELSE Out([s EXCEPT !.hand = Append(@, Head(s.library))], RetCard(Head(s.library)))

\* draw_card that puts the card at the front of the hand
draw_card_to_front(s) ==
    IF s.library = <<>>
    THEN Out(s, Ret("None"))
    ELSE Out([s EXCEPT !.library = Tail(@), !.hand = <<Head(s.library)>> \o @],
             RetCard(Head(s.library)))

\* GameState.draw_card
draw_card(s) ==
    IF s.library = <<>>
    THEN Out(s, Ret("None"))
    ELSE Out([s EXCEPT !.library = Tail(@), !.hand = Append(@, Head(s.library))],
             RetCard(Head(s.library)))

\* play_land without the one-land-per-turn check
play_land_any_number(s, card) ==
    IF ~In(card, s.hand) THEN Out(s, Ret("False"))
    ELSE IF ~is_land(card) THEN Out(s, Ret("False"))
    ELSE Out([s EXCEPT !.hand = Remove(@, card),
                       !.battlefield = Append(@, card),
                       !.land_played_this_turn = card,
                       !.cards_played_this_turn = Append(@, card)], Ret("True"))

\* play_land without the check that the card is a land
play_land_any_card(s, card) ==
    IF s.land_played_this_turn # None THEN Out(s, Ret("False"))
    ELSE IF ~In(card, s.hand) THEN Out(s, Ret("False"))
    ELSE Out([s EXCEPT !.hand = Remove(@, card),
                       !.battlefield = Append(@, card),
                       !.land_played_this_turn = card,
                       !.cards_played_this_turn = Append(@, card)], Ret("True"))

\* GameState.play_land
play_land(s, card) ==
    IF s.land_played_this_turn # None THEN Out(s, Ret("False"))
    ELSE IF ~In(card, s.hand) THEN Out(s, Ret("False"))
    ELSE IF ~is_land(card) THEN Out(s, Ret("False"))
    ELSE Out([s EXCEPT !.hand = Remove(@, card),
                       !.battlefield = Append(@, card),
                       !.land_played_this_turn = card,
                       !.cards_played_this_turn = Append(@, card)], Ret("True"))

\* cast_spell that puts every spell on the battlefield, Instants and Sorceries too
cast_spell_all_permanent(s, card, cost) ==
    IF ~In(card, s.hand) THEN Out(s, Ret("False"))
    ELSE IF ~can_afford(s, cost) THEN Out(s, Ret("ValueError"))
    ELSE Out([s EXCEPT !.mana_pool = [c \in Symbols |-> @[c] - cost[c]],
                       !.hand = Remove(@, card),
                       !.battlefield = Append(@, card),
                       !.cards_played_this_turn = Append(@, card)], Ret("True"))

\* cast_spell that returns False on an unaffordable spell, as its docstring says
cast_spell_returns_false(s, card, cost) ==
    IF ~In(card, s.hand) THEN Out(s, Ret("False"))
    ELSE IF ~can_afford(s, cost) THEN Out(s, Ret("False"))
    ELSE LET paid == [s EXCEPT !.mana_pool = [c \in Symbols |-> @[c] - cost[c]],
                               !.hand = Remove(@, card)]
         IN  IF is_permanent(card)
             THEN Out([paid EXCEPT !.battlefield = Append(@, card),
                                   !.cards_played_this_turn = Append(@, card)], Ret("True"))
             ELSE Out([paid EXCEPT !.graveyard = Append(@, card)], Ret("True"))

\* GameState.cast_spell
cast_spell(s, card, cost) ==
    IF ~In(card, s.hand) THEN Out(s, Ret("False"))
    ELSE IF ~can_afford(s, cost) THEN Out(s, Ret("ValueError"))
    ELSE LET paid == [s EXCEPT !.mana_pool = [c \in Symbols |-> @[c] - cost[c]],
                               !.hand = Remove(@, card)]
         IN  IF is_permanent(card)
             THEN Out([paid EXCEPT !.battlefield = Append(@, card),
                                   !.cards_played_this_turn = Append(@, card)], Ret("True"))
             ELSE Out([paid EXCEPT !.graveyard = Append(@, card)], Ret("True"))

\* GameState.add_mana
add_mana(s, mana) == [s EXCEPT !.mana_pool = [c \in Symbols |-> @[c] + mana[c]]]

\* clear_mana_pool that leaves the entered-this-turn list as it is
clear_mana_pool_only(s) == [s EXCEPT !.mana_pool = NoCost]

\* GameState.clear_mana_pool
clear_mana_pool(s) == [s EXCEPT !.mana_pool = NoCost, !.cards_played_this_turn = <<>>]

----------------------------------------------------------------------------
(* GameEngine (src/src/core/engine.py, class GameEngine) *)

BasicTypes == {"Mountain", "Island", "Plains", "Swamp", "Forest"}

\* the tag COND_COUNT_3_<TYPE> of a basic land type
CountTag(ty) ==
    CASE ty = "Mountain" -> "COND_COUNT_3_MOUNTAIN"
      [] ty = "Island" -> "COND_COUNT_3_ISLAND"
      [] ty = "Plains" -> "COND_COUNT_3_PLAIN"
      [] ty = "Swamp" -> "COND_COUNT_3_SWAMP"
      [] ty = "Forest" -> "COND_COUNT_3_FOREST"

\* len([c for c in lst if P(c)])
Count(lst, P(_)) == Len(SelectSeq(lst, P))

\* GameEngine._check_enters_tapped
check_enters_tapped(s, card) ==
    IF "TAPPED_ENTRY" \notin tags(card) THEN FALSE
    ELSE LET OtherLand(c) == is_land(c) /\ ~Eq(c, card)
             fast == "COND_FASTLAND" \in tags(card) /\ Count(s.battlefield, OtherLand) <= 2
             OfType(ty) == LET P(c) == OtherLand(c) /\ ty \in type_line(c) IN Count(s.battlefield, P)
             counted == \E ty \in BasicTypes : CountTag(ty) \in tags(card) /\ OfType(ty) >= 3
         IN  ~(fast \/ counted)

\* untapped_lands that does not consult the tapped set
untapped_lands_untracked(s, tapped) ==
    LET Eligible(land) == is_land(land) /\ "FETCH_LAND" \notin tags(land)
    IN  SelectSeq(s.battlefield, Eligible)

\* The land loop of the mana sweep: the lands it collects in untapped_lands
untapped_lands(s, tapped) ==
    LET Eligible(land) ==
            /\ is_land(land)
            /\ land \notin tapped
            /\ "FETCH_LAND" \notin tags(land)
            /\ ~(In(land, s.cards_played_this_turn) /\ "TAPPED_ENTRY" \in tags(land))
            /\ ~(/\ s.land_played_this_turn # None
                 /\ Eq(land, s.land_played_this_turn)
                 /\ check_enters_tapped(s, land))
    IN  SelectSeq(s.battlefield, Eligible)

\* artifact_skipped that lets every mana rock be tapped the turn it entered
artifact_skipped_never_held(s, a, tapped) ==
    \/ ~("MANA_ROCK" \in tags(a) /\ "ARTIFACT" \in tags(a))
    \/ a \in tapped

\* artifact_skipped that holds back every artifact that entered this turn
artifact_skipped_sick(s, a, tapped) ==
    \/ ~("MANA_ROCK" \in tags(a) /\ "ARTIFACT" \in tags(a))
    \/ a \in tapped
    \/ In(a, s.cards_played_this_turn)

\* The artifact loop of the mana sweep: the battlefield card a is not a mana rock,
\* or the loop passes over it (continue)
artifact_skipped(s, a, tapped) ==
    \/ ~("MANA_ROCK" \in tags(a) /\ "ARTIFACT" \in tags(a))
    \/ a \in tapped
    \/ /\ In(a, s.cards_played_this_turn)
       /\ ("TAPPED_ENTRY" \in tags(a) \/ "Creature" \in type_line(a))

\* The artifact loop of the mana sweep over lst, from the tapped set given:
\* the artifacts it taps, in order
RECURSIVE active_artifacts(_, _, _)
active_artifacts(s, lst, tapped) ==
    IF lst = <<>> THEN <<>>
    ELSE LET a == Head(lst)
             skip == artifact_skipped(s, a, tapped)
         IN  IF skip THEN active_artifacts(s, Tail(lst), tapped)
             ELSE <<a>> \o active_artifacts(s, Tail(lst), tapped \cup {a})

\* a cast step that takes the first affordable spell in hand order, without sorting
pick_spell_first(s) ==
    LET Affordable(c) == ~is_land(c) /\ can_afford(s, mana_cost(c))
        affordable == SelectSeq(s.hand, Affordable)
    IN  IF affordable = <<>> THEN None ELSE Head(affordable)

\* pick_spell without the can_afford filter
pick_spell_unchecked(s) ==
    LET NonLand(c) == ~is_land(c)
        affordable == SelectSeq(s.hand, NonLand)
    IN  IF affordable = <<>> THEN None
        ELSE affordable[CHOOSE k \in 1..Len(affordable) :
                 /\ \A m \in 1..Len(affordable) : cmc(affordable[m]) <= cmc(affordable[k])
                 /\ \A m \in 1..(k - 1) : cmc(affordable[m]) < cmc(affordable[k])]

\* pick_spell over every card in hand, lands included
pick_spell_lands_too(s) ==
    LET Affordable(c) == can_afford(s, mana_cost(c))
        affordable == SelectSeq(s.hand, Affordable)
    IN  IF affordable = <<>> THEN None
        ELSE affordable[CHOOSE k \in 1..Len(affordable) :
                 /\ \A m \in 1..Len(affordable) : cmc(affordable[m]) <= cmc(affordable[k])
                 /\ \A m \in 1..(k - 1) : cmc(affordable[m]) < cmc(affordable[k])]

\* The spell the cast step picks: affordable.sort(key=cmc, reverse=True)[0], None if none
pick_spell(s) ==
    LET Affordable(c) == ~is_land(c) /\ can_afford(s, mana_cost(c))
        affordable == SelectSeq(s.hand, Affordable)
    IN  IF affordable = <<>> THEN None
        ELSE affordable[CHOOSE k \in 1..Len(affordable) :
                 /\ \A m \in 1..Len(affordable) : cmc(affordable[m]) <= cmc(affordable[k])
                 /\ \A m \in 1..(k - 1) : cmc(affordable[m]) < cmc(affordable[k])]

\* pick_fetcher that passes over no fetch-land
pick_fetcher_any(s, tapped) ==
    LET Fetch(f) == "FETCH_LAND" \in tags(f)
        ready == SelectSeq(s.battlefield, Fetch)
    IN  IF ready = <<>> THEN None ELSE Head(ready)

\* _resolve_fetch_lands: the fetcher the for loop cracks, None if it skips them all
pick_fetcher(s, tapped) ==
    LET Ready(f) ==
            /\ "FETCH_LAND" \in tags(f)
            /\ ~(/\ text_T(f)
                 /\ \/ f \in tapped
                    \/ /\ s.land_played_this_turn # None
                       /\ Eq(f, s.land_played_this_turn)
                       /\ "TAPPED_ENTRY" \in tags(f))
        ready == SelectSeq(s.battlefield, Ready)
    IN  IF ready = <<>> THEN None ELSE Head(ready)

\* pick_target that takes the first land of the library, basic or not
pick_target_any_land(s) ==
    LET found == SelectSeq(s.library, is_land)
    IN  IF found = <<>> THEN None ELSE Head(found)

\* _resolve_fetch_lands: the library card the search takes, None if there is none
pick_target(s) ==
    LET Basic(c) == is_land(c) /\ ("Basic" \in type_line(c) \/ type_line(c) \cap BasicTypes # {})
        found == SelectSeq(s.library, Basic)
    IN  IF found = <<>> THEN None ELSE Head(found)

\* a fetch-land that goes back to the hand instead of the graveyard
sacrifice_to_hand(s, fetcher) ==
    [s EXCEPT !.battlefield = Remove(@, fetcher), !.hand = Append(@, fetcher)]

\* sacrifice that leaves the fetcher on the battlefield
sacrifice_keeps(s, fetcher) == [s EXCEPT !.graveyard = Append(@, fetcher)]

\* _resolve_fetch_lands, step 1: the fetcher goes from the battlefield to the graveyard
sacrifice(s, fetcher) ==
    [s EXCEPT !.battlefield = Remove(@, fetcher), !.graveyard = Append(@, fetcher)]

\* target_land.tags.append("TAPPED_ENTRY") on an object that every equal card shares
force_tag_shared(target) ==
    forced \cup {i \in DOMAIN deck : deck[i] = deck[target] /\ "TAPPED_ENTRY" \notin tags(i)}

\* a fetch resolution that appends no tag
force_tag_none(target) == forced

\* _resolve_fetch_lands: target_land.tags.append("TAPPED_ENTRY") unless the tag is there;
\* the instances whose tag is forced after it
force_tag(target) == IF "TAPPED_ENTRY" \in tags(target) THEN forced ELSE forced \cup {target}

\* _resolve_fetch_lands, step 3: the target goes from the library to the battlefield
put_target(s, target) ==
    [s EXCEPT !.library = Remove(@, target),
              !.battlefield = Append(@, target),
              !.cards_played_this_turn = Append(@, target)]

----------------------------------------------------------------------------
(* The tag classifier (src/src/core/tags.py) *)

\* A rules text is a sequence of sentences, read as joined by single spaces; a type
\* line is the set of its words. The sentences the texts are made of:
Phrases ==
    { "enters tapped",
      "Enters the battlefield tapped",
      "enters tapped unless you control two or more basic lands",
      "enters tapped unless you control a forest",
      "enters tapped unless you pay 2 life",
      "enters tapped unless you control two or fewer other lands",
      "enters tapped unless you control three or more other forests",
      "enters tapped unless an opponent controls more lands",
      "enters tapped if you control three or more other lands",
      "enters tapped unless you control a legendary creature",
      "{T}: Add {G}",
      "search your library for a basic land card",
      "Search your library for a card",
      "draw a card",
      "destroy target creature",
      "destroy all creatures",
      "counter target spell" }

\* str.lower() of a phrase
lower(p) ==
    CASE p = "Enters the battlefield tapped" -> "enters the battlefield tapped"
      [] p = "{T}: Add {G}" -> "{t}: add {g}"
      [] p = "Search your library for a card" -> "search your library for a card"
      [] OTHER -> p

\* oracle_text.lower()
oracle_lower(txt) == [k \in 1..Len(txt) |-> lower(txt[k])]

\* substring in text / re.search(pattern, text) for a pattern that lies within one
\* phrase: S is the set of the phrases that contain the substring or a match
Has(txt, S) == \E k \in 1..Len(txt) : txt[k] \in S

\* re.search(r"(this\s+(land|artifact)\s+)?(enters?|enter)\s+(the\s+battlefield\s+)?tapped", text, re.IGNORECASE)
EntersTapped ==
    { "enters tapped",
      "enters the battlefield tapped",
      "enters tapped unless you control two or more basic lands",
      "enters tapped unless you control a forest",
      "enters tapped unless you pay 2 life",
      "enters tapped unless you control two or fewer other lands",
      "enters tapped unless you control three or more other forests",
      "enters tapped unless an opponent controls more lands",
      "enters tapped if you control three or more other lands",
      "enters tapped unless you control a legendary creature" }

\* the phrases with the substring "land" (lowercased)
WithLand ==
    { "enters tapped unless you control two or more basic lands",
      "enters tapped unless you control two or fewer other lands",
      "enters tapped unless an opponent controls more lands",
      "enters tapped if you control three or more other lands",
      "search your library for a basic land card" }

\* STATIC_CARD_TAGS: three of its entries
STATIC_CARD_TAGS ==
    [ n \in {"Sol Ring", "Command Tower", "Coldsteel Heart"} |->
        CASE n = "Sol Ring" -> {"RAMP", "ARTIFACT", "MANA_ROCK"}
          [] n = "Command Tower" -> {"LAND", "RAMP"}
          [] n = "Coldsteel Heart" -> {"RAMP", "ARTIFACT", "MANA_ROCK", "TAPPED_ENTRY"} ]

\* assign_tags, 1.: tags = set(); tags.update(STATIC_CARD_TAGS[card_name])
static_tags(table, card_name) ==
    IF card_name \in DOMAIN table THEN table[card_name] ELSE {}

\* assign_tags, 2. and 3.: the tags of the words of the type line
type_tags(tl) ==
    {t \in {"LAND", "ARTIFACT", "CREATURE", "ENCHANTMENT", "INSTANT", "SORCERY", "PLANESWALKER"} :
        \/ t = "LAND" /\ "Land" \in tl
        \/ t = "ARTIFACT" /\ "Artifact" \in tl
        \/ t = "CREATURE" /\ "Creature" \in tl
        \/ t = "ENCHANTMENT" /\ "Enchantment" \in tl
        \/ t = "INSTANT" /\ "Instant" \in tl
        \/ t = "SORCERY" /\ "Sorcery" \in tl
        \/ t = "PLANESWALKER" /\ "Planeswalker" \in tl}

\* assign_tags, 4.: the rules on the rules text, up to the tapped-entry detection
text_tags(txt) ==
    LET low == oracle_lower(txt)
        ramp == /\ Has(low, {"search your library for a basic land card", "search your library for a card"})
                /\ Has(low, WithLand)
        rock == Has(low, {"{t}: add {g}"})
        draw == Has(low, {"draw a card"})
        removal == /\ Has(low, {"destroy target creature", "destroy all creatures"})
                   /\ Has(low, {"destroy target creature", "destroy all creatures",
                                "counter target spell", "enters tapped unless you control a legendary creature"})
        wipe == Has(low, {"destroy all creatures"})
        counter == Has(low, {"counter target spell"})
        tutor == Has(low, {"search your library for a card"})
        tapped == Has(low, EntersTapped)
    IN  {t \in {"RAMP", "MANA_ROCK", "DRAW", "REMOVAL", "BOARD_WIPE", "COUNTERSPELL", "TUTOR", "TAPPED_ENTRY"} :
            \/ t = "RAMP" /\ (ramp \/ rock)
            \/ t = "MANA_ROCK" /\ rock
            \/ t = "DRAW" /\ draw
            \/ t = "REMOVAL" /\ removal
            \/ t = "BOARD_WIPE" /\ wipe
            \/ t = "COUNTERSPELL" /\ counter
            \/ t = "TUTOR" /\ tutor
            \/ t = "TAPPED_ENTRY" /\ tapped}

\* the patterns of the Land-Specific Conditional Logic, in the order of the if/elif chain
rule_matches(k, low) ==
    CASE k = 1 -> Has(low, {"enters tapped unless you control two or more basic lands"})
      [] k = 2 -> Has(low, {"enters tapped unless you control a forest"})
      [] k = 3 -> Has(low, {"enters tapped unless you pay 2 life"})
      [] k = 4 -> Has(low, {"enters tapped unless you control two or fewer other lands"})
      [] k = 5 -> Has(low, {"enters tapped unless you control three or more other forests"})
      [] k = 6 -> Has(low, {"enters tapped unless an opponent controls more lands"})
      [] k = 7 -> Has(low, {"enters tapped if you control three or more other lands"})

\* what the branch of rule k does to the tags
rule_effect(k, ts) ==
    CASE k \in {1, 2, 3, 7} -> ts \ {"TAPPED_ENTRY"}
      [] k = 4 -> ts \cup {"COND_FASTLAND"}
      [] k = 5 -> ts \cup {"COND_COUNT_3_FOREST"}
      [] k = 6 -> ts

\* an if/elif chain that tests the fastland pattern first
first_rule_fastland_first(low) ==
    LET order == <<4, 1, 2, 3, 5, 6, 7>>
        hits == {i \in 1..7 : rule_matches(order[i], low)}
    IN  IF hits = {} THEN 0 ELSE order[CHOOSE i \in hits : \A j \in hits : i <= j]

\* the if/elif chain: the branch taken is the first whose pattern matches, 0 if none does
first_rule(low) ==
    LET hits == {k \in 1..7 : rule_matches(k, low)}
    IN  IF hits = {} THEN 0 ELSE CHOOSE k \in hits : \A j \in hits : k <= j

\* a chain whose default, when no pattern matches, retracts the tag
land_rules_default_untapped(tl, txt, ts) ==
    IF "Land" \in tl /\ "TAPPED_ENTRY" \in ts
    THEN IF first_rule(oracle_lower(txt)) # 0
         THEN rule_effect(first_rule(oracle_lower(txt)), ts)
         ELSE ts \ {"TAPPED_ENTRY"}
    ELSE ts

\* the Land-Specific Conditional Logic: without a matching pattern the tags stay as they are
land_rules(tl, txt, ts) ==
    IF "Land" \in tl /\ "TAPPED_ENTRY" \in ts /\ first_rule(oracle_lower(txt)) # 0
    THEN rule_effect(first_rule(oracle_lower(txt)), ts)
    ELSE ts

\* assign_tags(card_name, type_line, oracle_text): the set of the tags returned
assign_tags(table, card_name, tl, txt) ==
    land_rules(tl, txt, static_tags(table, card_name) \cup type_tags(tl) \cup text_tags(txt))

\* tags = STATIC_CARD_TAGS[card_name] without a copy: the rules write into the table's entry
table_after_in_place(table, card_name, result) ==
    IF card_name \in DOMAIN table THEN [table EXCEPT ![card_name] = result] ELSE table

\* STATIC_CARD_TAGS after a call of assign_tags that returned result: the function
\* builds its tags in a set of its own and never writes to the table
table_after(table, card_name, result) == table

----------------------------------------------------------------------------
(* The decks a game is started with *)

DeckSize == OpeningHandSize + LibSize

\* A full deck is copies of one filler card with up to MaxSpecials other cards, in
\* any order: start_game shuffles, so the order of the library is any order, and
\* the instances are numbered by their place in it.
Fillers == {"Forest", "Bear"}

FullDecks ==
    UNION { UNION { { [i \in 1..DeckSize |-> IF i \in P THEN a[i] ELSE f] : a \in [P -> Kinds \ {f}] }
                    : P \in {Q \in SUBSET (1..DeckSize) : Cardinality(Q) <= MaxSpecials} }
            : f \in Fillers }

\* start_game takes a list of any length: the decks of at most SmallDeck cards
SmallDecks == UNION { [1..n -> Kinds] : n \in 0..SmallDeck }

Decks == FullDecks \cup SmallDecks

NoCall == [op |-> "none", card |-> None, cost |-> NoCost]

Call(op, card, cost) == [op |-> op, card |-> card, cost |-> cost]

NoHist ==
    [ lib0 |-> 0,          \* cards start_game put in the library
      lands_played |-> 0,  \* successful play_land calls
      cleanups |-> 0,      \* turns ended
      iters |-> 0,         \* passes of the while loop begun this turn
      bf0 |-> 0,           \* battlefield size when the main phase started
      hand0 |-> 0,         \* hand size when the main phase started
      fetch0 |-> 0,        \* fetch-lands on the battlefield when the main phase started
      added |-> 0,         \* add_mana calls of the mana sweeps of this turn
      fetches |-> 0,       \* fetch-lands cracked this turn
      shuffled |-> FALSE ] \* random.shuffle was called by the last fetch resolution

\* _log_event(event_type, details) in detailed mode: the event carries the turn
\* counter, its type and, for play_land, the enters_tapped detail
log_event(log, s, event_type, enters_tapped) ==
    IF export_mode = "detailed"
    THEN Append(log, [turn |-> s.turn_counter, event |-> event_type, enters_tapped |-> enters_tapped])
    ELSE log

\* GameEngine.__init__: self._mc_stats
NewStats ==
    [mana_turn_4 |-> 0, lands_turn_4 |-> 0, hand_empty_turn |-> None, final_lands |-> 0, final_turn |-> 0]

\* no batch: the engine is run on its own
NoBatch ==
    [ started |-> 0,           \* games handed to _run_single_simulation so far
      template_forced |-> {},  \* cards of the template deck whose tags list got "TAPPED_ENTRY" appended
      results |-> <<>>,        \* the statistics the finished games returned
      tag_writes |-> 0 ]       \* fetch resolutions of the batch that appended a tag (bookkeeping)

\* nobody has called assign_tags
NoTagged ==
    [card_name |-> "", type_line |-> {}, oracle_text |-> <<>>, table |-> STATIC_CARD_TAGS, returned |-> <<>>]

\* nobody has called fetch_card_from_scryfall
NoFetching ==
    [ max_retries |-> 0,      \* the max_retries argument
      retry_count |-> 0,      \* the retry_count argument of the innermost call
      cache |-> "absent",     \* no cache given, or what cache.get(card_name) finds
      requests |-> 0,         \* client.get calls made
      responses |-> <<>>,     \* what each of them answered
      waits |-> <<>>,         \* the seconds handed to asyncio.sleep, in order
      at |-> "none",          \* where the coroutine stands
      result |-> "none" ]     \* what the outermost call returned

\* nobody has called Deck(...)
NoBuilt == [commander |-> "", cards |-> <<>>, outcome |-> "none", all_cards |-> <<>>]

\* GameEngine.__init__, with the deck that will be handed to start_game
Init ==
    /\ deck \in Decks
    /\ forced = {}
    /\ state = NewGameState
    /\ pc = "new"
    /\ tapped_objects = {}
    /\ mana_added_this_loop = FALSE
    /\ spell_cast_this_loop = FALSE
    /\ call = NoCall
    /\ ret = Ret("None")
    /\ hist = NoHist
    /\ game_log = <<>>
    /\ export_mode = "detailed"
    /\ mc_stats = NewStats
    /\ batch = NoBatch
    /\ tagged = NoTagged
    /\ built = NoBuilt
    /\ turns = MaxTurns
    /\ fetching = NoFetching

----------------------------------------------------------------------------
(* start_game *)

\* draw_card() n times
RECURSIVE draw_n(_, _)
draw_n(s, n) == IF n = 0 THEN s ELSE draw_n(draw_card(s).s, n - 1)

\* start_game: the commander it auto-detects (first Legendary Creature), None if none
detect_commander ==
    LET ids == [i \in 1..Len(deck) |-> i]
        Legendary(c) == "Legendary" \in type_line(c) /\ "Creature" \in type_line(c)
        found == SelectSeq(ids, Legendary)
    IN  IF found = <<>> THEN None ELSE Head(found)

\* start_game: library = [c for c in deck if c != commander], in shuffled order
start_library ==
    LET ids == [i \in 1..Len(deck) |-> i]
        cmd == detect_commander
        NotCmd(c) == cmd = None \/ ~Eq(c, cmd)
    IN  SelectSeq(ids, NotCmd)

\* start_game, random.shuffle(self.state.library): the instances are numbered by
\* their place in the deck and Init ranges the deck over every order, so the
\* shuffle of an engine's first game is taken as the identity; a later game of a
\* batch gets the same order or the reversed one
StartOrders(lib) ==
    IF batch.started <= 1 THEN {lib}
    ELSE {lib, [k \in 1..Len(lib) |-> lib[Len(lib) + 1 - k]]}

\* start_game(deck): library set in the shuffled order lib, opening hand drawn, turn counter at 1
start_game(s, lib) ==
    LET cmd == detect_commander
        s1 == [s EXCEPT !.commander = IF cmd = None THEN "None" ELSE deck[cmd],
                        !.library = lib]
    IN  [draw_n(s1, OpeningHandSize) EXCEPT !.turn_counter = 1]

StartGame ==
    /\ pc = "new"
    /\ \E lib \in StartOrders(start_library) : state' = start_game(state, lib)
    /\ hist' = [hist EXCEPT !.lib0 = Len(start_library)]
    /\ game_log' = log_event(game_log, state, "opening_hand", FALSE)
    /\ pc' = "idle"
    /\ UNCHANGED <<turns, fetching, export_mode, mc_stats, batch, tagged, built, deck, forced, tapped_objects, mana_added_this_loop, spell_cast_this_loop, call, ret>>

----------------------------------------------------------------------------
(* step(): one turn, phase by phase *)

\* a draw phase that calls draw_card() twice
DrawPhaseTwice ==
    /\ pc = "idle"
    /\ state.turn_counter <= turns
    /\ LET o == draw_card(draw_card(state).s)
           log2 == log_event(log_event(game_log, state, "turn_start", FALSE), state, "untap_step", FALSE)
       IN  /\ state' = o.s
           /\ ret' = o.r
           /\ game_log' = IF o.r.v = "Card" THEN log_event(log2, o.s, "draw", FALSE) ELSE log2
    /\ call' = Call("draw_card", None, NoCost)
    /\ pc' = "main"
    /\ UNCHANGED <<turns, fetching, export_mode, mc_stats, batch, tagged, built, deck, forced, tapped_objects, mana_added_this_loop, spell_cast_this_loop, hist>>

\* step(), up to the draw phase: the turn_start and untap_step checkpoints, then one draw_card()
DrawPhase ==
    /\ pc = "idle"
    /\ state.turn_counter <= turns
    /\ LET o == draw_card(state)
           log2 == log_event(log_event(game_log, state, "turn_start", FALSE), state, "untap_step", FALSE)
       IN  /\ state' = o.s
           /\ ret' = o.r
           /\ game_log' = IF o.r.v = "Card" THEN log_event(log2, o.s, "draw", FALSE) ELSE log2
    /\ call' = Call("draw_card", None, NoCost)
    /\ pc' = "main"
    /\ UNCHANGED <<turns, fetching, export_mode, mc_stats, batch, tagged, built, deck, forced, tapped_objects, mana_added_this_loop, spell_cast_this_loop, hist>>

\* a main phase that goes to the loop without playing a land
LandDropSkipped ==
    /\ pc = "main"
    /\ call' = NoCall
    /\ hist' = [hist EXCEPT
                   !.iters = 0,
                   !.added = 0,
                   !.fetches = 0,
                   !.bf0 = Len(state.battlefield),
                   !.hand0 = Len(state.hand),
                   !.fetch0 = Count(state.battlefield, LAMBDA c : "FETCH_LAND" \in tags(c))]
    /\ tapped_objects' = {}
    /\ pc' = "sweep"
    /\ UNCHANGED <<turns, fetching, export_mode, mc_stats, batch, tagged, built, deck, forced, state, ret, game_log, mana_added_this_loop, spell_cast_this_loop>>

\* _main_phase_heuristic, step 1: play the first land in hand; tapped_objects = set()
LandDrop ==
    /\ pc = "main"
    /\ LET lands_in_hand == SelectSeq(state.hand, is_land)
       IN  IF lands_in_hand # <<>> /\ state.land_played_this_turn = None
           THEN LET o == play_land(state, Head(lands_in_hand))
                IN  /\ state' = o.s
                    /\ ret' = o.r
                    /\ call' = Call("play_land", Head(lands_in_hand), NoCost)
                    /\ game_log' = log_event(game_log, o.s, "play_land",
                                             check_enters_tapped(o.s, Head(lands_in_hand)))
                    /\ hist' = [hist EXCEPT
                                   !.lands_played = IF o.r.v = "True" THEN @ + 1 ELSE @,
                                   !.iters = 0,
                                   !.added = 0,
                                   !.fetches = 0,
                                   !.bf0 = Len(state.battlefield),
                                   !.hand0 = Len(state.hand),
                                   !.fetch0 = Count(state.battlefield, LAMBDA c : "FETCH_LAND" \in tags(c))]
           ELSE /\ UNCHANGED <<state, ret, game_log>>
                /\ call' = NoCall
                /\ hist' = [hist EXCEPT
                               !.iters = 0,
                               !.added = 0,
                               !.fetches = 0,
                               !.bf0 = Len(state.battlefield),
                               !.hand0 = Len(state.hand),
                               !.fetch0 = Count(state.battlefield, LAMBDA c : "FETCH_LAND" \in tags(c))]
    /\ tapped_objects' = {}
    /\ pc' = "sweep"
    /\ UNCHANGED <<turns, fetching, export_mode, mc_stats, batch, tagged, built, deck, forced, mana_added_this_loop, spell_cast_this_loop>>

\* add_mana({"colorless": 1}) n times
RECURSIVE add_n(_, _)
add_n(s, n) == IF n = 0 THEN s ELSE add_n(add_mana(s, Cost(1, 0, 0)), n - 1)

\* a mana sweep whose artifact loop does not see what the land loop tapped
ManaSweepLandsForgotten ==
    /\ pc = "sweep"
    /\ LET lands == untapped_lands(state, tapped_objects)
           tapped1 == tapped_objects \cup Range(lands)
           rocks == active_artifacts(state, state.battlefield, tapped_objects)
       IN  /\ state' = add_n(state, Len(lands) + Len(rocks))
           /\ tapped_objects' = tapped1 \cup Range(rocks)
           /\ mana_added_this_loop' = (Len(lands) + Len(rocks) > 0)
           /\ game_log' = IF Len(lands) + Len(rocks) > 0
                          THEN log_event(game_log, state, "generate_mana", FALSE)
                          ELSE game_log
           /\ hist' = [hist EXCEPT !.iters = @ + 1, !.added = @ + Len(lands) + Len(rocks)]
    /\ call' = NoCall
    /\ pc' = "cast"
    /\ UNCHANGED <<turns, fetching, export_mode, mc_stats, batch, tagged, built, deck, forced, spell_cast_this_loop, ret>>

\* while True, first half: tap the untapped lands, then the mana rocks
ManaSweep ==
    /\ pc = "sweep"
    /\ LET lands == untapped_lands(state, tapped_objects)
           tapped1 == tapped_objects \cup Range(lands)
           rocks == active_artifacts(state, state.battlefield, tapped1)
       IN  /\ state' = add_n(state, Len(lands) + Len(rocks))
           /\ tapped_objects' = tapped1 \cup Range(rocks)
           /\ mana_added_this_loop' = (Len(lands) + Len(rocks) > 0)
           /\ game_log' = IF Len(lands) + Len(rocks) > 0
                          THEN log_event(game_log, state, "generate_mana", FALSE)
                          ELSE game_log
           /\ hist' = [hist EXCEPT !.iters = @ + 1, !.added = @ + Len(lands) + Len(rocks)]
    /\ call' = NoCall
    /\ pc' = "cast"
    /\ UNCHANGED <<turns, fetching, export_mode, mc_stats, batch, tagged, built, deck, forced, spell_cast_this_loop, ret>>

\* while True, second half: cast the most expensive affordable spell
CastSpells ==
    /\ pc = "cast"
    /\ LET spell == pick_spell(state)
       IN  IF spell = None
           THEN /\ spell_cast_this_loop' = FALSE
                /\ call' = NoCall
                /\ pc' = "check"
                /\ UNCHANGED <<state, ret, game_log>>
           ELSE LET o == cast_spell(state, spell, mana_cost(spell))
                IN  /\ state' = o.s
                    /\ ret' = o.r
                    /\ call' = Call("cast_spell", spell, mana_cost(spell))
                    /\ spell_cast_this_loop' = (o.r.v = "True")
                    /\ game_log' = IF o.r.v = "True"
                                   THEN log_event(game_log, o.s, "cast_spell", FALSE)
                                   ELSE game_log
                    /\ pc' = IF o.r.v = "ValueError" THEN "aborted" ELSE "check"
    /\ UNCHANGED <<turns, fetching, export_mode, mc_stats, batch, tagged, built, deck, forced, tapped_objects, mana_added_this_loop, hist>>

\* Break conditions: something changed, so the loop runs again
LoopAgain ==
    /\ pc = "check"
    /\ mana_added_this_loop \/ spell_cast_this_loop
    /\ pc' = "sweep"
    /\ call' = NoCall
    /\ UNCHANGED <<turns, fetching, export_mode, mc_stats, batch, tagged, built, deck, forced, state, tapped_objects, mana_added_this_loop, spell_cast_this_loop, ret, hist, game_log>>

\* game cards that are the template's own objects: a tag appended to a game card
\* is appended to the template card
template_tags_shared(tf, gf) == gf

\* game_deck = [c.model_copy(deep=True) for c in deck]: the game's cards are new
\* objects with tags lists of their own, so a tag appended to a game card (gf: the
\* game's cards carrying the appended tag) leaves the template's tags (tf) alone
template_tags(tf, gf) == tf

\* Break conditions: nothing changed and _resolve_fetch_lands cracks a fetcher
\* (returns True): the target, if any, enters tagged TAPPED_ENTRY and the library
\* is shuffled; without a target the library is left as it is
ResolveFetch ==
    /\ pc = "check"
    /\ ~mana_added_this_loop /\ ~spell_cast_this_loop
    /\ LET fetcher == pick_fetcher(state, tapped_objects)
       IN  /\ fetcher # None
           /\ LET s1 == sacrifice(state, fetcher)
                  target == pick_target(s1)
              IN  IF target = None
                  THEN /\ state' = s1
                       /\ hist' = [hist EXCEPT !.shuffled = FALSE, !.fetches = @ + 1]
                       /\ UNCHANGED <<forced, game_log, batch>>
                  ELSE /\ \E lib \in Shuffles(put_target(s1, target).library) :
                              state' = [put_target(s1, target) EXCEPT !.library = lib]
                       /\ forced' = force_tag(target)
                       /\ batch' = [batch EXCEPT
                                       !.template_forced = template_tags(@, force_tag(target)),
                                       !.tag_writes = IF batch.started = 0 THEN 0 ELSE @ + 1]
                       /\ hist' = [hist EXCEPT !.shuffled = TRUE, !.fetches = @ + 1]
                       /\ game_log' = log_event(game_log, s1, "activate_ability", FALSE)
    /\ pc' = "sweep"
    /\ call' = Call("_resolve_fetch_lands", None, NoCost)
    /\ ret' = Ret("True")
    /\ UNCHANGED <<turns, fetching, export_mode, mc_stats, tagged, built, deck, tapped_objects, mana_added_this_loop, spell_cast_this_loop>>

\* a break taken as soon as a pass changed nothing, without looking for fetch-lands
LoopExitEarly ==
    /\ pc = "check"
    /\ ~mana_added_this_loop /\ ~spell_cast_this_loop
    /\ pc' = "end"
    /\ call' = Call("_resolve_fetch_lands", None, NoCost)
    /\ ret' = Ret("False")
    /\ UNCHANGED <<turns, fetching, export_mode, mc_stats, batch, tagged, built, deck, forced, state, tapped_objects, mana_added_this_loop, spell_cast_this_loop, hist, game_log>>

\* Break conditions: nothing changed and _resolve_fetch_lands returns False: break
LoopExit ==
    /\ pc = "check"
    /\ ~mana_added_this_loop /\ ~spell_cast_this_loop
    /\ pick_fetcher(state, tapped_objects) = None
    /\ pc' = "end"
    /\ call' = Call("_resolve_fetch_lands", None, NoCost)
    /\ ret' = Ret("False")
    /\ UNCHANGED <<turns, fetching, export_mode, mc_stats, batch, tagged, built, deck, forced, state, tapped_objects, mana_added_this_loop, spell_cast_this_loop, hist, game_log>>

\* an end phase that leaves land_played_this_turn set
end_phase_flag_kept(s) ==
    [clear_mana_pool(s) EXCEPT !.turn_counter = @ + 1]

\* the end phase of step(): clear_mana_pool(), land flag reset, turn counter advanced
end_phase(s) ==
    [clear_mana_pool(s) EXCEPT !.land_played_this_turn = None, !.turn_counter = @ + 1]

\* an update that records the turn whenever the hand is empty, set before or not
update_stats_last(stats, s) ==
    IF s.hand = <<>> THEN [stats EXCEPT !.hand_empty_turn = s.turn_counter - 1] ELSE stats

\* step(), UPDATE STATS: s is the state after the turn counter was advanced
update_stats(stats, s) ==
    LET lands == Count(s.battlefield, is_land)
        rocks == Count(s.battlefield, LAMBDA c : "MANA_ROCK" \in tags(c))
        st1 == IF s.turn_counter = 5
               THEN [stats EXCEPT !.mana_turn_4 = lands + rocks, !.lands_turn_4 = lands]
               ELSE stats
    IN  IF s.hand = <<>> /\ st1.hand_empty_turn = None
        THEN [st1 EXCEPT !.hand_empty_turn = s.turn_counter - 1]
        ELSE st1

\* step(), end phase: clear_mana_pool(), land flag reset, turn counter advanced,
\* statistics updated
Cleanup ==
    /\ pc = "end"
    /\ state' = end_phase(state)
    /\ mc_stats' = update_stats(mc_stats, end_phase(state))
    /\ hist' = [hist EXCEPT !.cleanups = @ + 1]
    /\ game_log' = log_event(game_log, clear_mana_pool(state), "turn_end", FALSE)
    /\ pc' = "idle"
    /\ call' = NoCall
    /\ UNCHANGED <<turns, fetching, export_mode, batch, tagged, built, deck, forced, tapped_objects, mana_added_this_loop, spell_cast_this_loop, ret>>

\* run_simulation(turns), after run_turns(turns) has returned: the final statistics
finalize(stats, s) ==
    [stats EXCEPT !.final_turn = s.turn_counter - 1,
                  !.final_lands = Count(s.battlefield, is_land)]

\* run_simulation(turns): run_turns(turns) is over, the statistics are finalized and returned
RunSimulationEnd ==
    /\ pc = "idle"
    /\ state.turn_counter > turns
    /\ mc_stats' = finalize(mc_stats, state)
    /\ pc' = "done"
    /\ call' = NoCall
    /\ UNCHANGED <<turns, fetching, export_mode, batch, tagged, built, deck, forced, state, tapped_objects, mana_added_this_loop, spell_cast_this_loop, ret, hist, game_log>>

Next ==
    \/ StartGame
    \/ DrawPhase
    \/ LandDrop
    \/ ManaSweep
    \/ CastSpells
    \/ LoopAgain
    \/ ResolveFetch
    \/ LoopExit
    \/ Cleanup
    \/ RunSimulationEnd

Spec == Init /\ [][Next]_vars

\* The decks of the termination check: the short lists, and the full decks with at most FairSpecials special cards
FairDecks ==
    SmallDecks \cup {d \in FullDecks : \E f \in Fillers : Cardinality({i \in 1..DeckSize : d[i] # f}) <= FairSpecials}

FairInit == Init /\ deck \in FairDecks

\* The engine is one synchronous thread: a step that can be taken is taken
FairSpec == FairInit /\ [][Next]_vars /\ WF_vars(Next)

\* The decks of the four-turn games: copies of one filler card with up to
\* MaxSpecials cards of any kind, in any order
LongDecks ==
    UNION { UNION { { [i \in 1..DeckSize |-> IF i \in P THEN a[i] ELSE f] : a \in [P -> DOMAIN CardData \ {f}] }
                    : P \in {Q \in SUBSET (1..DeckSize) : Cardinality(Q) <= MaxSpecials} }
            : f \in Fillers }

\* GameEngine.__init__ for run_simulation(turns=LongTurns)
LongInit ==
    /\ deck \in LongDecks
    /\ forced = {}
    /\ state = NewGameState
    /\ pc = "new"
    /\ tapped_objects = {}
    /\ mana_added_this_loop = FALSE
    /\ spell_cast_this_loop = FALSE
    /\ call = NoCall
    /\ ret = Ret("None")
    /\ hist = NoHist
    /\ game_log = <<>>
    /\ export_mode = "detailed"
    /\ mc_stats = NewStats
    /\ batch = NoBatch
    /\ tagged = NoTagged
    /\ built = NoBuilt
    /\ turns = LongTurns
    /\ fetching = NoFetching

LongSpec == LongInit /\ [][Next]_vars

----------------------------------------------------------------------------
(* A batch: BatchRunner.run_batch maps _run_single_simulation over the games *)

\* the template decks of the batches: those of the termination check
BatchDecks == FairDecks

\* run_batch: args = [(self.deck, self.commander, turns) for _ in range(iterations)]
BatchInit ==
    /\ deck \in BatchDecks
    /\ forced = {}
    /\ state = NewGameState
    /\ pc = "pool"
    /\ tapped_objects = {}
    /\ mana_added_this_loop = FALSE
    /\ spell_cast_this_loop = FALSE
    /\ call = NoCall
    /\ ret = Ret("None")
    /\ hist = NoHist
    /\ game_log = <<>>
    /\ export_mode = "summary"
    /\ mc_stats = NewStats
    /\ batch = NoBatch
    /\ tagged = NoTagged
    /\ built = NoBuilt
    /\ turns = MaxTurns
    /\ fetching = NoFetching

\* _run_single_simulation, up to start_game: a new engine in summary mode and a
\* deep copy of every card of the template deck
RunSingleSimulation ==
    /\ pc = "pool"
    /\ batch.started < Iterations
    /\ batch' = [batch EXCEPT !.started = @ + 1]
    /\ forced' = batch.template_forced
    /\ state' = NewGameState
    /\ mc_stats' = NewStats
    /\ export_mode' = "summary"
    /\ game_log' = <<>>
    /\ hist' = NoHist
    /\ tapped_objects' = {}
    /\ mana_added_this_loop' = FALSE
    /\ spell_cast_this_loop' = FALSE
    /\ call' = NoCall
    /\ ret' = Ret("None")
    /\ pc' = "new"
    /\ UNCHANGED <<turns, fetching, deck, tagged, built>>

\* _run_single_simulation: return result
ReturnResult ==
    /\ pc = "done"
    /\ batch' = [batch EXCEPT !.results = Append(@, mc_stats)]
    /\ pc' = "pool"
    /\ UNCHANGED <<turns, fetching, export_mode, mc_stats, tagged, built, deck, forced, state, tapped_objects, mana_added_this_loop, spell_cast_this_loop, call, ret, hist, game_log>>

BatchNext ==
    \/ RunSingleSimulation
    \/ StartGame
    \/ DrawPhase
    \/ LandDrop
    \/ ManaSweep
    \/ CastSpells
    \/ LoopAgain
    \/ ResolveFetch
    \/ LoopExit
    \/ Cleanup
    \/ RunSimulationEnd
    \/ ReturnResult

BatchSpec == BatchInit /\ [][BatchNext]_vars

----------------------------------------------------------------------------
(* A caller of assign_tags, as tests/unit/test_tags.py and scryfall.py are *)

\* the card names passed: three of the table and one that is not in it
TagNames == {"Sol Ring", "Command Tower", "Coldsteel Heart", "Unknown Card"}

\* the type lines passed
TagTypeLines ==
    { {"Land"}, {"Basic", "Land", "Forest"}, {"Artifact"}, {"Artifact", "Land"}, {"Creature"},
      {"Instant"}, {"Sorcery"}, {"Enchantment"}, {"Planeswalker"}, {} }

\* the rules texts passed: at most MaxPhrases phrases
TagTexts == UNION { [1..n -> Phrases] : n \in 0..MaxPhrases }

TagInit ==
    /\ deck = <<>>
    /\ forced = {}
    /\ state = NewGameState
    /\ pc = "tags"
    /\ tapped_objects = {}
    /\ mana_added_this_loop = FALSE
    /\ spell_cast_this_loop = FALSE
    /\ call = NoCall
    /\ ret = Ret("None")
    /\ hist = NoHist
    /\ game_log = <<>>
    /\ export_mode = "detailed"
    /\ mc_stats = NewStats
    /\ batch = NoBatch
    /\ \E n \in TagNames, tl \in TagTypeLines, txt \in TagTexts :
           tagged = [NoTagged EXCEPT !.card_name = n, !.type_line = tl, !.oracle_text = txt]
    /\ built = NoBuilt
    /\ turns = MaxTurns
    /\ fetching = NoFetching

\* tags = assign_tags(card_name, type_line, oracle_text)
AssignTags ==
    /\ pc = "tags"
    /\ Len(tagged.returned) < MaxCalls
    /\ LET result == assign_tags(tagged.table, tagged.card_name, tagged.type_line, tagged.oracle_text)
       IN  tagged' = [tagged EXCEPT
                         !.returned = Append(@, result),
                         !.table = table_after(@, tagged.card_name, result)]
    /\ UNCHANGED <<turns, fetching, export_mode, mc_stats, batch, built, deck, forced, state, pc, tapped_objects, mana_added_this_loop, spell_cast_this_loop, call, ret, hist, game_log>>

TagNext == AssignTags

TagSpec == TagInit /\ [][TagNext]_vars

----------------------------------------------------------------------------
(* A caller of Deck(commander=..., cards=...), as tests/unit/test_models.py is *)

\* a validator that only rejects lists that are too long
validate_deck_size_at_most(v) ==
    IF Len(v) > DeckCards THEN "ValidationError" ELSE "Deck"

\* Deck.validate_deck_size: raises ValueError unless len(v) == 99
validate_deck_size(v) ==
    IF Len(v) # DeckCards THEN "ValidationError" ELSE "Deck"

\* Deck.all_cards: [self.commander] + self.cards
all_cards(d) == <<d.commander>> \o d.cards

\* the commander and the cards list handed to Deck(...): copies of one card, at
\* most MaxCards of them
BuildInit ==
    /\ deck = <<>>
    /\ forced = {}
    /\ state = NewGameState
    /\ pc = "deck"
    /\ tapped_objects = {}
    /\ mana_added_this_loop = FALSE
    /\ spell_cast_this_loop = FALSE
    /\ call = NoCall
    /\ ret = Ret("None")
    /\ hist = NoHist
    /\ game_log = <<>>
    /\ export_mode = "detailed"
    /\ mc_stats = NewStats
    /\ batch = NoBatch
    /\ tagged = NoTagged
    /\ \E c \in {"Kenrith", "Bear"}, f \in Kinds, n \in 0..MaxCards :
           built = [NoBuilt EXCEPT !.commander = c, !.cards = [i \in 1..n |-> f]]
    /\ turns = MaxTurns
    /\ fetching = NoFetching

BuildFrame ==
    UNCHANGED <<turns, fetching, export_mode, mc_stats, batch, tagged, deck, forced, state, pc, tapped_objects, mana_added_this_loop, spell_cast_this_loop, call, ret, hist, game_log>>

\* deck = Deck(commander=commander, cards=cards)
ConstructDeck ==
    /\ pc = "deck"
    /\ built.outcome = "none"
    /\ built' = [built EXCEPT !.outcome = validate_deck_size(built.cards)]
    /\ BuildFrame

\* deck.all_cards, read from a constructed deck
ReadAllCards ==
    /\ pc = "deck"
    /\ built.outcome = "Deck"
    /\ built.all_cards = <<>>
    /\ built' = [built EXCEPT !.all_cards = all_cards(built)]
    /\ BuildFrame

BuildNext == ConstructDeck \/ ReadAllCards

BuildSpec == BuildInit /\ [][BuildNext]_vars

----------------------------------------------------------------------------
(* A GameState driven directly by a caller, as tests/unit/test_gamestate.py does: *)
(* the zones assigned by hand, then any sequence of calls                         *)

ApiKinds == {"Forest", "Bear", "Bolt"}

\* the costs a caller passes to cast_spell and the amounts it passes to add_mana
ApiCosts == {NoCost, Cost(1, 0, 0), Cost(0, 1, 0), Cost(2, 0, 0)}

ApiMana == {Cost(1, 0, 0), Cost(0, 1, 0)}

\* state = GameState(); state.library = [card1, card2, ...]
ApiInit ==
    /\ deck \in [1..ApiCards -> ApiKinds]
    /\ forced = {}
    /\ state = [NewGameState EXCEPT !.library = [i \in 1..ApiCards |-> i]]
    /\ pc = "api"
    /\ tapped_objects = {}
    /\ mana_added_this_loop = FALSE
    /\ spell_cast_this_loop = FALSE
    /\ call = NoCall
    /\ ret = Ret("None")
    /\ hist = NoHist
    /\ game_log = <<>>
    /\ export_mode = "detailed"
    /\ mc_stats = NewStats
    /\ batch = NoBatch
    /\ tagged = NoTagged
    /\ built = NoBuilt
    /\ turns = MaxTurns
    /\ fetching = NoFetching

ApiFrame ==
    UNCHANGED <<turns, fetching, export_mode, mc_stats, batch, tagged, built, deck, forced, tapped_objects, mana_added_this_loop, spell_cast_this_loop, call, ret, game_log>>

\* state.draw_card()
ApiDraw ==
    /\ pc = "api"
    /\ state' = draw_card(state).s
    /\ UNCHANGED <<pc, hist>>
    /\ ApiFrame

\* state.play_land(card), for any card object of the test
ApiPlayLand ==
    /\ pc = "api"
    /\ \E card \in 1..ApiCards :
          LET o == play_land(state, card)
          IN  /\ state' = o.s
              /\ hist' = [hist EXCEPT !.lands_played = IF o.r.v = "True" THEN @ + 1 ELSE @]
    /\ UNCHANGED pc
    /\ ApiFrame

\* state.cast_spell(card, cost), for any card object and cost; a ValueError ends the run
ApiCast ==
    /\ pc = "api"
    /\ \E card \in 1..ApiCards, cost \in ApiCosts :
          LET o == cast_spell(state, card, cost)
          IN  /\ state' = o.s
              /\ pc' = IF o.r.v = "ValueError" THEN "aborted" ELSE "api"
    /\ UNCHANGED hist
    /\ ApiFrame

\* state.add_mana(mana)
ApiAddMana ==
    /\ pc = "api"
    /\ \E mana \in ApiMana :
          /\ get_total_mana(state) + Total(mana) <= MaxMana
          /\ state' = add_mana(state, mana)
    /\ UNCHANGED <<pc, hist>>
    /\ ApiFrame

\* state.clear_mana_pool()
ApiClear ==
    /\ pc = "api"
    /\ state' = clear_mana_pool(state)
    /\ UNCHANGED <<pc, hist>>
    /\ ApiFrame

\* the end phase of step() on this GameState
ApiEndTurn ==
    /\ pc = "api"
    /\ hist.cleanups < ApiTurns
    /\ state' = end_phase(state)
    /\ hist' = [hist EXCEPT !.cleanups = @ + 1]
    /\ UNCHANGED pc
    /\ ApiFrame

ApiNext ==
    \/ ApiDraw
    \/ ApiPlayLand
    \/ ApiCast
    \/ ApiAddMana
    \/ ApiClear
    \/ ApiEndTurn

ApiSpec == ApiInit /\ [][ApiNext]_vars

----------------------------------------------------------------------------
(* Properties *)

\* the cards of the game: the instances start_game put in the library
GameCards == Range(start_library)

\* how many times instance i stands in lst
Occurrences(i, lst) == Cardinality({k \in 1..Len(lst) : lst[k] = i})

ZoneSizes == Len(state.library) + Len(state.hand) + Len(state.battlefield) + Len(state.graveyard)

\* C1: once the game is started, every card instance of the game stands exactly
\* once in exactly one of library, hand, battlefield, graveyard, the zones hold
\* nothing else, and their sizes add up to the number of cards start_game put in
\* the library.
ZonePartition ==
    pc # "new" =>
        /\ \A i \in GameCards :
               Occurrences(i, state.library) + Occurrences(i, state.hand)
                 + Occurrences(i, state.battlefield) + Occurrences(i, state.graveyard) = 1
        /\ Range(state.library) \cup Range(state.hand) \cup Range(state.battlefield)
             \cup Range(state.graveyard) \subseteq GameCards
        /\ ZoneSizes = hist.lib0

\* C1 witness: a turn has ended after a draw, a land play, a cast and a fetch that found a land
ZonePartitionWitness ==
    /\ pc = "idle"
    /\ hist.cleanups >= 1
    /\ forced # {}
    /\ \E k \in 1..Len(state.graveyard) : "FETCH_LAND" \in tags(state.graveyard[k])
    /\ \E k \in 1..Len(state.battlefield) : ~is_land(state.battlefield[k])
    /\ state.library # <<>>

\* the card objects and costs a direct caller passes
ApiCardSet == 1..ApiCards

\* C2: at most one land is played between two cleanups: the successful play_land
\* calls number at most the turns ended, plus one while the running turn has its
\* land; and once the turn has its land, play_land fails for every card and
\* leaves the GameState (hand and battlefield included) as it is.
SingleLandPerTurn ==
    pc = "api" =>
        /\ hist.lands_played <= hist.cleanups + (IF state.land_played_this_turn # None THEN 1 ELSE 0)
        /\ state.land_played_this_turn # None =>
               \A card \in ApiCardSet :
                   /\ play_land(state, card).r = Ret("False")
                   /\ play_land(state, card).s.hand = state.hand
                   /\ play_land(state, card).s.battlefield = state.battlefield

\* C2 witness: a later turn has its land, and another land is still in hand
SingleLandPerTurnWitness ==
    /\ pc = "api"
    /\ hist.cleanups >= 1
    /\ hist.lands_played = 1
    /\ state.land_played_this_turn # None
    /\ \E k \in 1..Len(state.hand) : is_land(state.hand[k])

\* play_land's precondition
PlayLandOk(s, card) == s.land_played_this_turn = None /\ In(card, s.hand) /\ is_land(card)

ManaNonNegative == \A c \in Symbols : state.mana_pool[c] >= 0

\* C5: cast_spell(card, cost) with the card in hand and the pool's total at least
\* the cost's total returns True, lowers the pool's total by the cost's total,
\* takes the card from the hand and appends it to the battlefield and the
\* entered-this-turn list if it is a permanent, to the graveyard if not; with the
\* card not in hand it returns False and changes nothing.
CastSpellContract ==
    pc = "api" =>
        \A card \in ApiCardSet, cost \in ApiCosts :
            LET o == cast_spell(state, card, cost)
            IN  /\ (In(card, state.hand) /\ get_total_mana(state) >= Total(cost)) =>
                       /\ o.r = Ret("True")
                       /\ get_total_mana(o.s) = get_total_mana(state) - Total(cost)
                       /\ o.s.hand = Remove(state.hand, card)
                       /\ o.s.library = state.library
                       /\ IF is_permanent(card)
                          THEN /\ o.s.battlefield = Append(state.battlefield, card)
                               /\ o.s.cards_played_this_turn = Append(state.cards_played_this_turn, card)
                               /\ o.s.graveyard = state.graveyard
                          ELSE /\ o.s.graveyard = Append(state.graveyard, card)
                               /\ o.s.battlefield = state.battlefield
                               /\ o.s.cards_played_this_turn = state.cards_played_this_turn
                /\ ~In(card, state.hand) => o.r = Ret("False") /\ o.s = state

\* C5 witness: a permanent was cast onto the battlefield and an Instant into the graveyard
CastSpellContractWitness ==
    /\ pc = "api"
    /\ \E k \in 1..Len(state.battlefield) : "Creature" \in type_line(state.battlefield[k])
    /\ \E k \in 1..Len(state.graveyard) : "Instant" \in type_line(state.graveyard[k])

InsufficientManaReturnsFalse ==
    pc = "api" =>
        \A card \in ApiCardSet, cost \in ApiCosts :
            (In(card, state.hand) /\ get_total_mana(state) < Total(cost)) =>
                /\ cast_spell(state, card, cost).r = Ret("False")
                /\ cast_spell(state, card, cost).s.hand = state.hand
                /\ cast_spell(state, card, cost).s.battlefield = state.battlefield

\* C8: the run never reaches the ValueError of cast_spell: the spell the cast
\* step is about to cast is in hand and affordable with the pool as it is, and
\* every cast_spell call the heuristic made returned True.
HeuristicCastsAffordable ==
    /\ pc # "aborted"
    /\ (pc = "cast" /\ pick_spell(state) # None) =>
           /\ In(pick_spell(state), state.hand)
           /\ can_afford(state, mana_cost(pick_spell(state)))
    /\ call.op = "cast_spell" => ret = Ret("True")

\* C8 witness: the heuristic has cast a spell that cost mana and emptied the pool
HeuristicCastsAffordableWitness ==
    /\ pc = "check"
    /\ call.op = "cast_spell" /\ Total(call.cost) > 0
    /\ get_total_mana(state) = 0

InLoop == pc \in {"sweep", "cast", "check"}

FetchersOnBattlefield == Count(state.battlefield, LAMBDA c : "FETCH_LAND" \in tags(c))

\* C9: the main phase of every turn ends (step() gets to its end phase and back to
\* the turn boundary), and every pass of the loop that is not the last taps a
\* source that was untapped, casts a card of the hand or consumes a fetch-land.
MainPhaseTerminates ==
    /\ (pc = "main") ~> (pc = "idle")
    /\ [][(pc = "sweep" /\ pc' = "cast") =>
              (mana_added_this_loop' <=> (tapped_objects \subseteq tapped_objects'
                                           /\ tapped_objects' # tapped_objects))]_vars
    /\ [][(pc = "cast" /\ pc' = "check") =>
              (spell_cast_this_loop' <=> Len(state'.hand) = Len(state.hand) - 1)]_vars
    /\ [][(pc = "check" /\ pc' = "sweep") =>
              \/ mana_added_this_loop
              \/ spell_cast_this_loop
              \/ FetchersOnBattlefield' = FetchersOnBattlefield - 1]_vars

\* C9 witness: a main phase has ended after a pass that tapped, a pass that cast and a pass that fetched
MainPhaseTerminatesWitness ==
    /\ pc = "end"
    /\ hist.iters >= 4
    /\ tapped_objects # {}
    /\ \E k \in 1..Len(state.graveyard) : "FETCH_LAND" \in tags(state.graveyard[k])
    /\ \E k \in 1..Len(state.cards_played_this_turn) : ~is_land(state.cards_played_this_turn[k])

\* C10, as claimed: the passes of the loop in one turn number at most battlefield
\* size + hand size + fetch-lands on the battlefield, taken at the start of the main phase.
IterationBoundClaimed == InLoop => hist.iters <= hist.bf0 + hist.hand0 + hist.fetch0

\* C10, amended: the passes number at most 2 + battlefield size + hand size + fetch-lands on the battlefield.
IterationBound == InLoop => hist.iters <= 2 + hist.bf0 + hist.hand0 + hist.fetch0

\* C10 witness: a turn whose loop ran 2 passes more than the claimed bound
IterationBoundWitness ==
    pc = "check" /\ hist.iters = 2 + hist.bf0 + hist.hand0 + hist.fetch0 /\ hist.hand0 > 0

\* a mana rock that is not creature-typed and has no tapped-entry tag
FreeRock(c) ==
    /\ "MANA_ROCK" \in tags(c) /\ "ARTIFACT" \in tags(c)
    /\ "Creature" \notin type_line(c)
    /\ "TAPPED_ENTRY" \notin tags(c)

\* the mana rocks of that kind that were cast this turn and are on the battlefield
RocksCastThisTurn ==
    {c \in Range(state.battlefield) \cap Range(state.cards_played_this_turn) : FreeRock(c)}

\* C11: a mana rock cast in the main phase (not a creature, no tapped-entry tag) is
\* tapped by the next sweep of the same turn, every source a sweep taps adds exactly
\* 1 mana, and a non-land hand card that the pool then pays for is cast in that pass.
SameTurnManaSource ==
    /\ [](pc = "cast" => RocksCastThisTurn \subseteq tapped_objects)
    /\ [][(pc = "sweep" /\ pc' = "cast") =>
              /\ RocksCastThisTurn \ tapped_objects \subseteq tapped_objects'
              /\ get_total_mana(state') =
                     get_total_mana(state) + Cardinality(tapped_objects' \ tapped_objects)]_vars
    /\ [][(pc = "cast" /\ pc' = "check"
            /\ \E k \in 1..Len(state.hand) :
                   ~is_land(state.hand[k]) /\ Total(mana_cost(state.hand[k])) <= get_total_mana(state))
              => (call'.op = "cast_spell" /\ ret' = Ret("True"))]_vars

\* C11 witness: a rock cast this turn has been tapped by a later sweep and another
\* spell that costs mana was cast after it
SameTurnManaSourceWitness ==
    /\ pc = "check"
    /\ hist.iters >= 2
    /\ call.op = "cast_spell" /\ Total(call.cost) >= 1
    /\ \E r \in RocksCastThisTurn : r \in tapped_objects /\ r # call.card

\* the card carries a conditional tapped-entry tag: fastland or count of a basic type
Conditional(c) ==
    "COND_FASTLAND" \in tags(c) \/ \E ty \in BasicTypes : CountTag(ty) \in tags(c)

\* C12: when the sweep of a turn has run, the land played this turn that carries a
\* conditional tapped-entry tag and whose condition says "enters untapped" on the
\* battlefield as it is (itself excluded) has been tapped for mana.
ConditionalLandResolvedLive ==
    (pc = "cast" /\ state.land_played_this_turn # None) =>
        LET land == state.land_played_this_turn
        IN  (/\ Conditional(land)
             /\ "FETCH_LAND" \notin tags(land)
             /\ land \in Range(state.battlefield)
             /\ ~check_enters_tapped(state, land)) => land \in tapped_objects

\* a step in which _resolve_fetch_lands ran and returned True
FetchStep == pc = "check" /\ pc' = "sweep" /\ ~mana_added_this_loop /\ ~spell_cast_this_loop

\* the battlefield card f is a fetch-land that the for loop of _resolve_fetch_lands does not pass over
EligibleFetcher(f) ==
    /\ "FETCH_LAND" \in tags(f)
    /\ text_T(f) => /\ f \notin tapped_objects
                    /\ ~(/\ state.land_played_this_turn # None
                         /\ Eq(f, state.land_played_this_turn)
                         /\ "TAPPED_ENTRY" \in tags(f))

\* the library card c is a land that is basic or has one of the five basic type names
Qualifies(c) == is_land(c) /\ ("Basic" \in type_line(c) \/ type_line(c) \cap BasicTypes # {})

\* index of the first element of lst that satisfies P, 0 if there is none
FirstIndex(lst, P(_)) ==
    IF \E k \in 1..Len(lst) : P(lst[k])
    THEN CHOOSE k \in 1..Len(lst) : P(lst[k]) /\ \A m \in 1..(k - 1) : ~P(lst[m])
    ELSE 0

\* C13: a fetch resolution that finds a qualifying land moves the first eligible
\* fetch-land of the battlefield to the graveyard and leaves every other battlefield
\* card in place, takes the first qualifying card of the library, appends it to the
\* battlefield and to the entered-this-turn list, leaves the rest of the library (in
\* some order), tags that instance TAPPED_ENTRY and returns True.
FetchResolvesOne ==
    [][(FetchStep /\ FirstIndex(state.library, Qualifies) # 0) =>
          LET k == FirstIndex(state.battlefield, EligibleFetcher)
              j == FirstIndex(state.library, Qualifies)
              target == state.library[j]
          IN  /\ k # 0
              /\ state'.battlefield = Append(DropAt(state.battlefield, k), target)
              /\ state'.graveyard = Append(state.graveyard, state.battlefield[k])
              /\ Len(state'.library) = Len(state.library) - 1
              /\ Range(state'.library) = Range(state.library) \ {target}
              /\ state'.cards_played_this_turn = Append(state.cards_played_this_turn, target)
              /\ state'.hand = state.hand
              /\ target \in forced' \/ "TAPPED_ENTRY" \in CardData[deck[target]].tags
              /\ ret' = Ret("True")]_vars

\* C13 witness: a fetch has just put a land on the battlefield and another
\* fetch-land is still on the battlefield
FetchResolvesOneWitness ==
    /\ pc = "sweep"
    /\ call.op = "_resolve_fetch_lands" /\ ret = Ret("True") /\ hist.shuffled
    /\ \E k \in 1..Len(state.battlefield) : "FETCH_LAND" \in tags(state.battlefield[k])

\* C14: every fetch resolution that sacrifices a fetch-land calls the shuffle of
\* the library, found a land or not, and the library after it holds the cards it
\* held before minus the fetched land, if any.
FetchAlwaysReshuffles ==
    [][FetchStep =>
          LET j == FirstIndex(state.library, Qualifies)
              taken == IF j = 0 THEN {} ELSE {state.library[j]}
          IN  /\ hist'.shuffled
              /\ Len(state'.library) = Len(state.library) - Cardinality(taken)
              /\ Range(state'.library) = Range(state.library) \ taken]_vars

\* the loop has found nothing to do and calls _resolve_fetch_lands
FetchAttempt == pc = "check" /\ ~mana_added_this_loop /\ ~spell_cast_this_loop

\* C15: with an eligible fetch-land on the battlefield and no qualifying land in
\* the library, fetch resolution moves the first eligible fetch-land to the
\* graveyard, leaves library, hand and tags as they are, returns True and the loop
\* runs again; with no eligible fetch-land it returns False, changes nothing and
\* the loop ends; neither aborts the run.
FetchWithoutTarget ==
    /\ [][(FetchAttempt /\ FirstIndex(state.battlefield, EligibleFetcher) # 0
                        /\ FirstIndex(state.library, Qualifies) = 0) =>
              LET k == FirstIndex(state.battlefield, EligibleFetcher)
              IN  /\ state'.battlefield = DropAt(state.battlefield, k)
                  /\ state'.graveyard = Append(state.graveyard, state.battlefield[k])
                  /\ state'.library = state.library
                  /\ state'.hand = state.hand
                  /\ state'.cards_played_this_turn = state.cards_played_this_turn
                  /\ forced' = forced
                  /\ ret' = Ret("True")
                  /\ pc' = "sweep"]_vars
    /\ [][(FetchAttempt /\ FirstIndex(state.battlefield, EligibleFetcher) = 0) =>
              /\ state' = state
              /\ forced' = forced
              /\ ret' = Ret("False")
              /\ pc' = "end"]_vars

\* C15 witness: a fetch-land has just been sacrificed without a target, with
\* cards left in the library
FetchWithoutTargetWitness ==
    /\ pc = "sweep"
    /\ call.op = "_resolve_fetch_lands" /\ ret = Ret("True") /\ ~hist.shuffled
    /\ Len(state.library) >= 2
    /\ state.graveyard # <<>>
    /\ "FETCH_LAND" \in tags(state.graveyard[Len(state.graveyard)])

\* the lands that fetch resolution put on the battlefield this turn: the lands of
\* the entered-this-turn list other than the land drop
FetchedThisTurn ==
    {c \in Range(state.cards_played_this_turn) : is_land(c) /\ c # state.land_played_this_turn}

\* C16: a land fetched this turn carries the tapped-entry tag and is not among the
\* sources tapped this turn, and a fetch resolution forces the tag on the fetched
\* instance only: the tags of every other instance stay as they were.
FetchedLandStaysTapped ==
    /\ [](pc \in {"sweep", "cast", "check", "end"} =>
            \A c \in FetchedThisTurn : c \notin tapped_objects /\ "TAPPED_ENTRY" \in tags(c))
    /\ [][forced' # forced =>
              /\ FetchStep
              /\ FirstIndex(state.library, Qualifies) # 0
              /\ forced' = forced \cup {state.library[FirstIndex(state.library, Qualifies)]}]_vars

\* C16 witness: at the end of a main phase a fetched Forest is untapped and tagged,
\* other lands were tapped, and another Forest of the game has no tapped-entry tag
FetchedLandStaysTappedWitness ==
    /\ pc = "end"
    /\ \E c \in FetchedThisTurn :
           /\ c \in forced
           /\ \E i \in GameCards : i # c /\ deck[i] = deck[c] /\ "TAPPED_ENTRY" \notin tags(i)
    /\ \E l \in tapped_objects : is_land(l)

\* C17: draw_card moves the head of the library to the tail of the hand and
\* returns it; on an empty library it returns None and changes nothing; the draw
\* phase of step() does just that, and a turn whose draw found the library empty
\* still runs to its end.
DrawCardContract ==
    /\ [](LET o == draw_card(state)
          IN  IF state.library = <<>>
              THEN o.s = state /\ o.r = Ret("None")
              ELSE /\ o.s.library = Tail(state.library)
                   /\ o.s.hand = Append(state.hand, Head(state.library))
                   /\ o.s.battlefield = state.battlefield
                   /\ o.s.graveyard = state.graveyard
                   /\ o.s.mana_pool = state.mana_pool
                   /\ o.r = RetCard(Head(state.library)))
    /\ [][(pc = "idle" /\ pc' = "main") =>
              IF state.library = <<>>
              THEN state' = state /\ ret' = Ret("None")
              ELSE /\ state'.library = Tail(state.library)
                   /\ state'.hand = Append(state.hand, Head(state.library))
                   /\ ret' = RetCard(Head(state.library))]_vars
    /\ (pc = "main" /\ call.op = "draw_card" /\ ret = Ret("None")) ~> (pc = "idle")

\* C17 witness: two turns have been completed in a game whose whole library went
\* into the opening hand, so that every draw phase found the library empty
DrawCardContractWitness ==
    /\ pc = "idle"
    /\ hist.cleanups >= 2
    /\ hist.lib0 >= 1 /\ hist.lib0 <= OpeningHandSize
    /\ state.library = <<>>
    /\ ret.v # "Card"

\* the place of a program position in the order of a turn: turn boundary (untap,
\* upkeep and draw ahead), draw done, main phase, main phase done (cleanup ahead)
PhaseRank(p) ==
    CASE p = "idle" -> 0
      [] p = "main" -> 1
      [] p \in {"sweep", "cast", "check"} -> 2
      [] p = "end" -> 3
      [] OTHER -> 4

\* the game log has an event of this type in this turn
HasEvent(turn, event_type) ==
    \E k \in 1..Len(game_log) : game_log[k].turn = turn /\ game_log[k].event = event_type

\* C18: within a turn the phases follow one another in the fixed order and never go
\* back; only the step from the turn boundary into the main phase draws, and it
\* draws exactly one card (none from an empty library); battlefield, graveyard and
\* mana pool change only in the main phase, after the draw; only the cleanup, after
\* the main phase, ends the turn. (The step to "done" is run_simulation returning
\* after the last turn: it belongs to no turn.)
PhaseOrder ==
    /\ [][(pc # "new" /\ pc' # pc /\ pc' # "done") =>
              \/ PhaseRank(pc') >= PhaseRank(pc) /\ PhaseRank(pc') <= 3
              \/ pc = "end" /\ pc' = "idle"]_vars
    /\ [][(pc = "idle" /\ pc' \notin {"idle", "done"}) =>
              /\ pc' = "main"
              /\ call'.op = "draw_card"
              /\ Len(state'.library) = IF state.library = <<>> THEN 0 ELSE Len(state.library) - 1
              /\ Len(state'.hand) + Len(state'.library) = Len(state.hand) + Len(state.library)
              /\ state'.battlefield = state.battlefield
              /\ state'.graveyard = state.graveyard
              /\ state'.mana_pool = state.mana_pool]_vars
    /\ [][(pc # "new" /\ (call'.op = "draw_card" \/ Len(state'.hand) > Len(state.hand))) =>
              (pc = "idle" /\ pc' = "main")]_vars
    /\ [][(\/ state'.battlefield # state.battlefield
            \/ state'.graveyard # state.graveyard
            \/ get_total_mana(state') > get_total_mana(state)) =>
              (PhaseRank(pc) \in {1, 2} /\ PhaseRank(pc') = 2)]_vars
    /\ [][(pc # "new" /\ state'.turn_counter # state.turn_counter) =>
              /\ pc = "end" /\ pc' = "idle"
              /\ state'.turn_counter = state.turn_counter + 1
              /\ get_total_mana(state') = 0]_vars

\* C18 witness: a turn that drew a card, played a land, generated mana, cast a
\* spell and cracked a fetch-land has been cleaned up
PhaseOrderWitness ==
    /\ pc = "idle"
    /\ \E turn \in 1..MaxTurns :
           /\ turn < state.turn_counter
           /\ \A e \in {"draw", "play_land", "generate_mana", "cast_spell", "activate_ability", "turn_end"} :
                  HasEvent(turn, e)

\* C19: at every turn boundary (after start_game and after each step()) every
\* entry of the mana pool is 0, no land is recorded as played this turn, the
\* entered-this-turn list is empty, and the turn counter is 1 plus the number of
\* turns executed.
TurnBoundaryClean ==
    pc = "idle" =>
        /\ \A c \in Symbols : state.mana_pool[c] = 0
        /\ state.land_played_this_turn = None
        /\ state.cards_played_this_turn = <<>>
        /\ state.turn_counter = 1 + hist.cleanups

\* C19 witness: the boundary after a second turn in which a land was played and
\* mana was generated that no spell used up
TurnBoundaryCleanWitness ==
    /\ pc = "idle"
    /\ hist.cleanups >= 2
    /\ HasEvent(state.turn_counter - 1, "play_land")
    /\ HasEvent(state.turn_counter - 1, "generate_mana")
    /\ ~HasEvent(state.turn_counter - 1, "cast_spell")

\* the event types that the step from the old log to the new one appended
Appended == [k \in 1..(Len(game_log') - Len(game_log)) |-> game_log'[Len(game_log) + k].event]

\* C20: the log only grows; its turn numbers never decrease; the events of a turn
\* begin with its turn_start and, once the turn is over, end with its turn_end;
\* and each action of a turn appends its event: the untap snapshot, the draw, the
\* land play with its tapped/untapped resolution, each sweep that added mana, each
\* cast, each fetch resolution (also one that finds no land), the turn end.
EveryActionLogged ==
    /\ [][/\ Len(game_log') >= Len(game_log)
          /\ SubSeq(game_log', 1, Len(game_log)) = game_log]_vars
    /\ [](\A k \in 1..(Len(game_log) - 1) : game_log[k].turn <= game_log[k + 1].turn)
    /\ [](\A k \in 1..Len(game_log) :
            /\ (k > 1 /\ game_log[k].turn # game_log[k - 1].turn) =>
                   (game_log[k].event = "turn_start" /\ game_log[k - 1].event \in {"turn_end", "opening_hand"})
            /\ game_log[k].event = "turn_end" =>
                   (k = Len(game_log) \/ game_log[k + 1].turn = game_log[k].turn + 1))
    /\ [][(pc = "idle" /\ pc' = "main") =>
              Appended = IF Len(state'.hand) > Len(state.hand)
                         THEN <<"turn_start", "untap_step", "draw">>
                         ELSE <<"turn_start", "untap_step">>]_vars
    /\ [][(pc = "main" /\ pc' = "sweep") =>
              IF state'.battlefield # state.battlefield
              THEN /\ Appended = <<"play_land">>
                   /\ game_log'[Len(game_log')].enters_tapped =
                          check_enters_tapped(state', state'.land_played_this_turn)
              ELSE Appended = <<>>]_vars
    /\ [][(pc = "sweep" /\ pc' = "cast") =>
              Appended = IF get_total_mana(state') > get_total_mana(state)
                         THEN <<"generate_mana">> ELSE <<>>]_vars
    /\ [][(pc = "cast" /\ pc' = "check") =>
              Appended = IF Len(state'.hand) < Len(state.hand) THEN <<"cast_spell">> ELSE <<>>]_vars
    /\ [][FetchStep => Appended = <<"activate_ability">>]_vars
    /\ [][(pc = "end" /\ pc' = "idle") => Appended = <<"turn_end">>]_vars

----------------------------------------------------------------------------
(* Batches *)

----------------------------------------------------------------------------
(* The tag classifier *)

StaticTableWins ==
    \A k \in 1..Len(tagged.returned) :
        tagged.card_name \in DOMAIN STATIC_CARD_TAGS
            => tagged.returned[k] = STATIC_CARD_TAGS[tagged.card_name]

\* the conditional tags of the secondary rules
CondTags == {"COND_FASTLAND", "COND_COUNT_3_FOREST"}

\* the rules text has a phrase the tapped-entry pattern matches
HasEntersTapped(txt) == \E k \in 1..Len(txt) : lower(txt[k]) \in EntersTapped

\* the rules text has this phrase
HasPhrase(txt, p) == \E k \in 1..Len(txt) : txt[k] = p

UnrecognizedStaysTapped ==
    \A k \in 1..Len(tagged.returned) :
        LET txt == tagged.oracle_text
            res == tagged.returned[k]
        IN  (/\ "Land" \in tagged.type_line
             /\ HasEntersTapped(txt)
             /\ \A j \in 1..Len(txt) : \A r \in 1..7 : ~rule_matches(r, <<lower(txt[j])>>))
                => ("TAPPED_ENTRY" \in res /\ res \cap CondTags = {})

\* C25 witness: a Land with "enters tapped unless you control a legendary
\* creature" was classified
UnrecognizedStaysTappedWitness ==
    /\ Len(tagged.returned) >= 1
    /\ "Land" \in tagged.type_line
    /\ tagged.oracle_text = <<"draw a card", "enters tapped unless you control a legendary creature">>

----------------------------------------------------------------------------
(* Deck construction *)

\* C26: Deck(...) succeeds exactly when the cards list has 99 cards, any other
\* length fails with a validation error, and all_cards of a constructed deck is
\* the commander followed by the 99 cards: 100 cards.
DeckSizeValidated ==
    /\ built.outcome = "Deck" => Len(built.cards) = 99
    /\ built.outcome = "ValidationError" => Len(built.cards) # 99
    /\ built.all_cards # <<>> =>
          /\ built.outcome = "Deck"
          /\ Len(built.all_cards) = 100
          /\ Head(built.all_cards) = built.commander
          /\ Tail(built.all_cards) = built.cards

\* C26 witness: a deck was constructed and its all_cards read
DeckSizeValidatedWitness ==
    /\ built.outcome = "Deck"
    /\ Len(built.all_cards) = 100

----------------------------------------------------------------------------
(* The main phase, move by move *)

\* the places in hand of the non-land cards whose total cost the pool covers
Castable == {k \in 1..Len(state.hand) :
                ~is_land(state.hand[k]) /\ Total(mana_cost(state.hand[k])) <= get_total_mana(state)}

\* the place of the greedy choice: highest mana value, earliest in hand on a tie
GreedyPlace ==
    CHOOSE k \in Castable :
        \A m \in Castable : \/ cmc(state.hand[m]) < cmc(state.hand[k])
                            \/ cmc(state.hand[m]) = cmc(state.hand[k]) /\ k <= m

\* C27: greedy cast choice. The cast half of a loop iteration casts at most one
\* spell, and it is the non-land hand card of highest mana value among those
\* whose total cost the pool covers, the earliest in hand order on a tie; the
\* loop goes through the break conditions before it casts again.
GreedyCast ==
    /\ [][pc = "cast" =>
              /\ pc' \in {"check", "aborted"}
              /\ IF Castable = {}
                 THEN state' = state
                 ELSE /\ call' = Call("cast_spell", state.hand[GreedyPlace], mana_cost(state.hand[GreedyPlace]))
                      /\ state'.hand \in {state.hand, DropAt(state.hand, GreedyPlace)}
                      /\ spell_cast_this_loop' = (state'.hand = DropAt(state.hand, GreedyPlace))]_vars
    /\ [][(InLoop /\ Len(state'.hand) < Len(state.hand)) =>
              (pc = "cast" /\ Len(state'.hand) = Len(state.hand) - 1)]_vars

\* C27 witness: a spell was cast while the hand held another non-land card of
\* lower mana value that the pool covered as well
GreedyCastWitness ==
    /\ pc = "check"
    /\ call.op = "cast_spell" /\ ret = Ret("True")
    /\ \E k \in 1..Len(state.hand) :
           /\ ~is_land(state.hand[k])
           /\ cmc(state.hand[k]) < cmc(call.card)
           /\ Total(mana_cost(state.hand[k])) <= get_total_mana(state) + Total(call.cost)

\* the places of the lands in hand
LandPlaces == {k \in 1..Len(state.hand) : is_land(state.hand[k])}

\* the place of the first land in hand
FirstLandPlace == CHOOSE k \in LandPlaces : \A m \in LandPlaces : k <= m

\* C28: land drop. When the main phase starts no mana has been generated and no
\* spell cast this turn; if the hand holds a land, the first step of the main
\* phase plays the first land in hand order, and only it; no later step of the
\* turn takes a land out of the hand or plays one; so at the end of a turn a land
\* is in hand only if a land was played that turn.
LandDropFirst ==
    /\ [](pc = "main" => (get_total_mana(state) = 0 /\ state.cards_played_this_turn = <<>>))
    /\ [][pc = "main" =>
              IF LandPlaces = {}
              THEN state' = state
              ELSE /\ state'.hand = DropAt(state.hand, FirstLandPlace)
                   /\ state'.battlefield = Append(state.battlefield, state.hand[FirstLandPlace])
                   /\ state'.land_played_this_turn # None
                   /\ state'.mana_pool = state.mana_pool
                   /\ state'.graveyard = state.graveyard
                   /\ call' = Call("play_land", state.hand[FirstLandPlace], NoCost)
                   /\ ret' = Ret("True")]_vars
    /\ [][InLoop => /\ SelectSeq(state'.hand, is_land) = SelectSeq(state.hand, is_land)
                    /\ state'.land_played_this_turn = state.land_played_this_turn
                    /\ call'.op # "play_land"]_vars
    /\ []((pc = "end" /\ LandPlaces # {}) => state.land_played_this_turn # None)

\* C28 witness: a turn is about to end in which a land was played by the land
\* drop, a land is still in hand and a non-land card lies before it in the hand
LandDropFirstWitness ==
    /\ pc = "end"
    /\ state.land_played_this_turn # None
    /\ hist.lands_played >= 1
    /\ LandPlaces # {}
    /\ \E k \in 1..Len(state.hand) : ~is_land(state.hand[k]) /\ k < FirstLandPlace

\* the card was put on the battlefield in an earlier turn: no play, cast or fetch
\* of this turn brought it
EnteredEarlier(c) == c \notin Range(state.cards_played_this_turn)

\* C30: mana sweep completeness. When the main phase of a turn is over, every
\* non-fetch land on the battlefield that entered in an earlier turn has been
\* tapped for mana in it, whatever other cards were played or fetched this turn.
ManaSweepComplete ==
    pc = "end" =>
        \A k \in 1..Len(state.battlefield) :
            LET c == state.battlefield[k]
            IN  (is_land(c) /\ "FETCH_LAND" \notin tags(c) /\ EnteredEarlier(c))
                    => c \in tapped_objects

----------------------------------------------------------------------------
(* Run statistics *)

\* a turn ends: the cleanup of step()
TurnEnds == pc = "end" /\ pc' = "idle"

\* C29: run statistics. hand_empty_turn is set only at the end of a turn, to the
\* number of that turn, when the hand is empty then and it was not set before:
\* it is the first turn at whose end the hand is empty, none while there was no
\* such turn, and once set it never changes. Every run comes to its end, and then
\* final_turn is the number of turns run and final_lands the number of lands on
\* the battlefield after the last turn.
RunStatistics ==
    /\ [][mc_stats.hand_empty_turn # None =>
              mc_stats'.hand_empty_turn = mc_stats.hand_empty_turn]_vars
    /\ [][(TurnEnds /\ mc_stats.hand_empty_turn = None) =>
              mc_stats'.hand_empty_turn = IF state'.hand = <<>> THEN state.turn_counter ELSE None]_vars
    /\ [][~TurnEnds => mc_stats'.hand_empty_turn = mc_stats.hand_empty_turn]_vars
    /\ [](mc_stats.hand_empty_turn # None =>
              (mc_stats.hand_empty_turn >= 1 /\ mc_stats.hand_empty_turn <= hist.cleanups))
    /\ []((pc = "idle" /\ hist.cleanups >= 1 /\ state.hand = <<>>) => mc_stats.hand_empty_turn # None)
    /\ [](pc = "done" =>
              /\ mc_stats.final_turn = hist.cleanups
              /\ mc_stats.final_turn = MaxTurns
              /\ mc_stats.final_lands = Count(state.battlefield, is_land))
    /\ (pc = "new") ~> (pc = "done")

\* C29 witness: a run is over in which the hand was first empty at the end of the
\* second turn and a land lies on the battlefield
RunStatisticsWitness ==
    /\ pc = "done"
    /\ mc_stats.hand_empty_turn = 2
    /\ mc_stats.final_turn = MaxTurns
    /\ mc_stats.final_lands >= 1

----------------------------------------------------------------------------
(* Mana sources over a turn *)

InMainLoop == pc \in {"sweep", "cast", "check", "end"}

\* the permanents the mana sweep can tap: lands and mana-rock artifacts, each one once
ManaSources(s) ==
    {c \in Range(s.battlefield) : is_land(c) \/ ("MANA_ROCK" \in tags(c) /\ "ARTIFACT" \in tags(c))}

\* C31: no double tapping. Within one turn every add_mana call of the mana sweeps
\* belongs to a different permanent of the battlefield (the mana added so far is the
\* number of permanents tapped so far, over all passes of the loop, an artifact land
\* included), so the mana added in a turn is at most the number of lands and
\* mana-rock artifacts on the battlefield, and the pool never holds more than that.
NoDoubleTap ==
    InMainLoop =>
        /\ hist.added = Cardinality(tapped_objects)
        /\ tapped_objects \subseteq ManaSources(state)
        /\ hist.added <= Cardinality(ManaSources(state))
        /\ get_total_mana(state) <= hist.added

\* the main phase of a turn is over after two or more passes, and an artifact land
\* that carries the mana-rock tag was tapped in it, next to another permanent
NoDoubleTapWitness ==
    /\ pc = "end"
    /\ hist.iters >= 2
    /\ hist.added >= 2
    /\ \E c \in tapped_objects : is_land(c) /\ "MANA_ROCK" \in tags(c) /\ "ARTIFACT" \in tags(c)

----------------------------------------------------------------------------
(* Lands over the turns (src/src/simulation/verify_plausibility.py) *)

\* a turn boundary: t turns are over, t = hist.cleanups
BetweenTurns == pc \in {"idle", "done"}

LandsOnBattlefield == Count(state.battlefield, is_land)

\* every card tagged FETCH_LAND is a land
FetchLandsAreLands == \A i \in DOMAIN deck : "FETCH_LAND" \in tags(i) => is_land(i)

\* C33: after t turns at most t lands are on the battlefield, in a deck whose
\* fetch-lands are lands; within a turn the land drop adds at most one to that, a
\* fetch resolution adds none, and no cast puts a land on the battlefield.
LandsWithinTurns ==
    FetchLandsAreLands =>
        /\ BetweenTurns => hist.cleanups = state.turn_counter - 1 /\ LandsOnBattlefield <= hist.cleanups
        /\ InMainLoop => LandsOnBattlefield <= hist.cleanups + (IF state.land_played_this_turn # None THEN 1 ELSE 0)
        /\ LandsOnBattlefield <= hist.lands_played

\* four turns are over, a land was dropped in each, a fetch-land among them was
\* cracked for a land, and four lands are on the battlefield
LandsWithinTurnsWitness ==
    /\ pc = "idle"
    /\ hist.cleanups = LongTurns
    /\ LandsOnBattlefield = LongTurns
    /\ \E k \in 1..Len(state.graveyard) : "FETCH_LAND" \in tags(state.graveyard[k])
    /\ forced # {}

\* lands_on_field = min(lands_drawn, turn)
lands_on_field(lands_drawn, turn) == IF lands_drawn <= turn THEN lands_drawn ELSE turn

\* cards_seen = 7 + turn
cards_seen(turn) == OpeningHandSize + turn

\* the cards that left the library: the opening hand and the draws
Drawn == state.hand \o state.battlefield \o state.graveyard

NoFetchLands == \A i \in DOMAIN deck : "FETCH_LAND" \notin tags(i)

\* C34: in a deck without fetch-lands, at the end of turn t the cards drawn are the
\* opening hand of 7 and one card per turn (as far as the library reaches), and the
\* lands on the battlefield are min(lands among the cards drawn, t), the value the
\* reference model of the plausibility check assigns.
LandsMatchReference ==
    (NoFetchLands /\ BetweenTurns) =>
        /\ Len(Drawn) = (IF cards_seen(hist.cleanups) <= hist.lib0 THEN cards_seen(hist.cleanups) ELSE hist.lib0)
        /\ LandsOnBattlefield = lands_on_field(Count(Drawn, is_land), hist.cleanups)

\* four turns of a deck without fetch-lands are over, fewer lands were drawn than
\* turns played, all of them are on the battlefield, and a spell was cast too
LandsMatchReferenceWitness ==
    /\ NoFetchLands
    /\ pc = "done"
    /\ hist.cleanups = LongTurns
    /\ Count(Drawn, is_land) = 2
    /\ LandsOnBattlefield = 2
    /\ \E k \in 1..Len(state.battlefield) : ~is_land(state.battlefield[k])

----------------------------------------------------------------------------
(* The enters_tapped detail of a play_land event *)

\* the land drop played a land: play_land returned True and the event was logged
LandPlayed == pc = "main" /\ pc' = "sweep" /\ call'.op = "play_land" /\ ret'.v = "True"

\* the lands of the battlefield other than the card played, the card being one object
OtherLands(s, card) == SelectSeq(s.battlefield, LAMBDA c : is_land(c) /\ c # card)

\* the value stated for the enters_tapped detail of the land played
enters_tapped_stated(s, card) ==
    IF "TAPPED_ENTRY" \notin tags(card) THEN FALSE
    ELSE IF "COND_FASTLAND" \in tags(card) /\ Len(OtherLands(s, card)) <= 2 THEN FALSE
    ELSE IF \E ty \in BasicTypes :
                /\ CountTag(ty) \in tags(card)
                /\ Count(OtherLands(s, card), LAMBDA c : ty \in type_line(c)) >= 3 THEN FALSE
    ELSE TRUE

\* C35: the enters_tapped detail of a play_land event is false for a land without
\* the tapped-entry tag, false for a fastland-conditional land with at most 2 other
\* lands on the battlefield, false for a count-conditional land with 3 or more
\* other lands of its basic type there, and true for every other tagged land, the
\* other lands being all lands of the battlefield but the one played.
PlayLandEntersTapped ==
    [][LandPlayed =>
          /\ game_log' # <<>>
          /\ game_log'[Len(game_log')].event = "play_land"
          /\ game_log'[Len(game_log')].enters_tapped = enters_tapped_stated(state', call'.card)]_vars

\* the same, for a land played while no equal copy of it is on the battlefield
PlayLandEntersTappedNoCopy ==
    [][(LandPlayed /\ \A k \in 1..Len(state.battlefield) : ~Eq(state.battlefield[k], call'.card)) =>
          game_log'[Len(game_log')].enters_tapped = enters_tapped_stated(state', call'.card)]_vars

----------------------------------------------------------------------------
(* The turn-4 statistics *)

\* the mana sources of the battlefield, each permanent once: lands and cards tagged MANA_ROCK
TaggedSources(s) == {c \in Range(s.battlefield) : is_land(c) \/ "MANA_ROCK" \in tags(c)}

\* four turns were played and the fourth was the last one played
AfterTurnFour == BetweenTurns /\ hist.cleanups = 4

\* C36: after four turns mana_turn_4 is the number of mana-source permanents on the
\* battlefield at the end of turn 4, a land or mana rock counted once also when it
\* is both, and lands_turn_4 is the number of lands then.
TurnFourStatistics ==
    AfterTurnFour =>
        /\ mc_stats.mana_turn_4 = Cardinality(TaggedSources(state))
        /\ mc_stats.lands_turn_4 = LandsOnBattlefield

\* the same, for a battlefield on which no land carries the mana-rock tag
TurnFourStatisticsDisjoint ==
    (AfterTurnFour /\ \A c \in Range(state.battlefield) : ~(is_land(c) /\ "MANA_ROCK" \in tags(c))) =>
        /\ mc_stats.mana_turn_4 = Cardinality(TaggedSources(state))
        /\ mc_stats.lands_turn_4 = LandsOnBattlefield

----------------------------------------------------------------------------
(* Fetch resolution and the rest of the turn *)

\* _resolve_fetch_lands is called
FetchCalled == pc = "check" /\ call'.op = "_resolve_fetch_lands"

\* C37: within a turn _resolve_fetch_lands is called only in a pass of the loop
\* in which no mana was added and no spell was cast (the two flags say exactly
\* that), and once a fetch-land was cracked in a turn, no later step of that main
\* phase adds mana, taps a source, or takes a card out of the hand.
FetchEndsTheTurn ==
    /\ [][(pc = "sweep" /\ pc' = "cast") =>
              mana_added_this_loop' = (hist'.added > hist.added)]_vars
    /\ [][(pc = "cast" /\ pc' = "check") =>
              spell_cast_this_loop' = (state'.hand # state.hand)]_vars
    /\ [][FetchCalled => ~mana_added_this_loop /\ ~spell_cast_this_loop]_vars
    /\ [][(InLoop /\ hist.fetches >= 1) =>
              /\ hist'.added = hist.added
              /\ tapped_objects' = tapped_objects
              /\ state'.mana_pool = state.mana_pool
              /\ state'.hand = state.hand
              /\ pc' # "aborted"]_vars

\* a main phase is over in which mana was added and is still in the pool, and then
\* a fetch-land was cracked for a land, which lies on the battlefield untapped
FetchEndsTheTurnWitness ==
    /\ pc = "end"
    /\ hist.fetches >= 1
    /\ hist.added >= 1
    /\ get_total_mana(state) >= 1
    /\ FetchedThisTurn # {}

----------------------------------------------------------------------------
(* The flow of cards between the zones *)

\* a step of a game that has been started
InGame == pc # "new"

Left(before, after) == Range(before) \ Range(after)

Entered(before, after) == Range(after) \ Range(before)

\* C38: zone flow is one-way. Once the game is started the library never gains a
\* card and the graveyard never loses one (it only grows at its end); a card that
\* enters the hand comes from the library; the only cards that leave the
\* battlefield are fetch-lands sacrificed by a fetch resolution, and they go to
\* the graveyard; a card that enters the graveyard is an Instant or Sorcery cast
\* from the hand or a sacrificed fetch-land, so the graveyard holds only those.
ZoneFlowOneWay ==
    /\ [][InGame =>
              /\ Entered(state.library, state'.library) = {}
              /\ Len(state'.library) <= Len(state.library)
              /\ Len(state'.graveyard) >= Len(state.graveyard)
              /\ SubSeq(state'.graveyard, 1, Len(state.graveyard)) = state.graveyard
              /\ Entered(state.hand, state'.hand) \subseteq Range(state.library)
              /\ \A c \in Left(state.battlefield, state'.battlefield) :
                     /\ FetchCalled
                     /\ "FETCH_LAND" \in tags(c)
                     /\ c \in Entered(state.graveyard, state'.graveyard)
              /\ \A c \in Entered(state.graveyard, state'.graveyard) :
                     \/ /\ call'.op = "cast_spell" /\ call'.card = c /\ ret'.v = "True"
                        /\ c \in Range(state.hand)
                        /\ "Instant" \in type_line(c) \/ "Sorcery" \in type_line(c)
                     \/ /\ FetchCalled
                        /\ "FETCH_LAND" \in tags(c)
                        /\ c \in Range(state.battlefield)]_vars
    /\ [](\A k \in 1..Len(state.graveyard) :
              LET c == state.graveyard[k]
              IN  "Instant" \in type_line(c) \/ "Sorcery" \in type_line(c) \/ "FETCH_LAND" \in tags(c))

\* the graveyard holds a cast Instant and a sacrificed fetch-land, the land it
\* fetched is on the battlefield, and cards are left in hand
ZoneFlowOneWayWitness ==
    /\ \E k \in 1..Len(state.graveyard) : "Instant" \in type_line(state.graveyard[k])
    /\ \E k \in 1..Len(state.graveyard) : "FETCH_LAND" \in tags(state.graveyard[k])
    /\ state.hand # <<>>
    /\ \E k \in 1..Len(state.battlefield) : state.battlefield[k] \in forced

----------------------------------------------------------------------------
(* Mana rocks that are held back the turn they are cast *)

\* a mana-rock artifact that is cast, not played as a land, and carries the
\* tapped-entry tag or is creature-typed
HeldRock(c) ==
    /\ "MANA_ROCK" \in tags(c) /\ "ARTIFACT" \in tags(c)
    /\ ~is_land(c)
    /\ "TAPPED_ENTRY" \in tags(c) \/ "Creature" \in type_line(c)

\* the cards that entered the battlefield this turn
EnteredThisTurn == Range(state.battlefield) \cap Range(state.cards_played_this_turn)

\* C39: a mana-rock artifact cast this turn that carries the tapped-entry tag or is
\* creature-typed is never tapped in that turn, and one that was cast in an earlier
\* turn has been tapped once the first sweep of the main phase is over, each sweep
\* adding exactly 1 mana for each source it taps.
HeldRockTappedLater ==
    /\ [](InMainLoop => \A c \in EnteredThisTurn : HeldRock(c) => c \notin tapped_objects)
    /\ [](pc \in {"cast", "check", "end"} =>
              \A c \in Range(state.battlefield) \ EnteredThisTurn : HeldRock(c) => c \in tapped_objects)
    /\ [][(pc = "sweep" /\ pc' = "cast") =>
              /\ tapped_objects \subseteq tapped_objects'
              /\ get_total_mana(state') =
                     get_total_mana(state) + Cardinality(tapped_objects' \ tapped_objects)]_vars

\* a main phase is over in which a tapped-entry rock cast in an earlier turn was
\* tapped and a creature-typed rock cast this turn was not
HeldRockTappedLaterWitness ==
    /\ pc = "end"
    /\ \E c \in Range(state.battlefield) \ EnteredThisTurn :
           HeldRock(c) /\ "TAPPED_ENTRY" \in tags(c) /\ c \in tapped_objects
    /\ \E c \in EnteredThisTurn :
           HeldRock(c) /\ "Creature" \in type_line(c) /\ c \notin tapped_objects

----------------------------------------------------------------------------
(* Card retrieval: fetch_card_from_scryfall (src/src/core/scryfall.py) *)

\* what client.get can do: answer with a status code ("500" stands for every
\* other code) or raise
Responses == {"200", "404", "429", "500", "exception"}

\* a limit test that allows one retry more
retries_exhausted_late(retry_count, max_retries) == retry_count > max_retries

\* if retry_count >= max_retries: return None
retries_exhausted(retry_count, max_retries) == retry_count >= max_retries

\* backoff_delay = (2 ** retry_count) * 1.0, in seconds
backoff_delay(retry_count) == 2 ^ retry_count

\* fetch_card_from_scryfall(card_name, client, max_retries=m, cache=...) is called
RetryInit ==
    /\ deck = <<>>
    /\ forced = {}
    /\ state = NewGameState
    /\ pc = "fetch"
    /\ tapped_objects = {}
    /\ mana_added_this_loop = FALSE
    /\ spell_cast_this_loop = FALSE
    /\ call = NoCall
    /\ ret = Ret("None")
    /\ hist = NoHist
    /\ game_log = <<>>
    /\ export_mode = "detailed"
    /\ mc_stats = NewStats
    /\ batch = NoBatch
    /\ tagged = NoTagged
    /\ built = NoBuilt
    /\ turns = MaxTurns
    /\ \E m \in 0..MaxRetries, c \in {"absent", "miss", "hit"} :
           fetching = [NoFetching EXCEPT !.max_retries = m, !.cache = c, !.at = "call"]

RetryFrame ==
    UNCHANGED <<turns, export_mode, mc_stats, batch, tagged, built, deck, forced, state, pc, tapped_objects, mana_added_this_loop, spell_cast_this_loop, call, ret, hist, game_log>>

\* the body up to the response: the cache is looked up, and on a miss the request
\* is sent and answered
Request ==
    /\ pc = "fetch"
    /\ fetching.at = "call"
    /\ IF fetching.cache = "hit"
       THEN fetching' = [fetching EXCEPT !.at = "returned", !.result = "card"]
       ELSE \E r \in Responses :
                fetching' = [fetching EXCEPT !.requests = @ + 1,
                                             !.responses = Append(@, r),
                                             !.at = "response"]
    /\ RetryFrame

\* the branches on response.status_code, and the except clause
Respond ==
    /\ pc = "fetch"
    /\ fetching.at = "response"
    /\ LET status == fetching.responses[Len(fetching.responses)]
       IN  fetching' =
               CASE status = "200" ->
                        [fetching EXCEPT !.at = "returned", !.result = "card",
                                         !.cache = IF @ = "absent" THEN @ ELSE "hit"]
                 [] status = "429" /\ ~retries_exhausted(fetching.retry_count, fetching.max_retries) ->
                        [fetching EXCEPT !.at = "sleep",
                                         !.waits = Append(@, backoff_delay(fetching.retry_count))]
                 [] OTHER ->
                        [fetching EXCEPT !.at = "returned", !.result = "None"]
    /\ RetryFrame

\* await asyncio.sleep(backoff_delay) is over: the recursive call with retry_count + 1
Retry ==
    /\ pc = "fetch"
    /\ fetching.at = "sleep"
    /\ fetching' = [fetching EXCEPT !.retry_count = @ + 1, !.at = "call"]
    /\ RetryFrame

RetryNext == Request \/ Respond \/ Retry

\* The coroutine is awaited to its end: a request is answered or raises, a sleep ends
RetrySpec == RetryInit /\ [][RetryNext]_vars /\ WF_vars(RetryNext)

\* every request so far was answered with HTTP 429
AlwaysLimited == \A k \in 1..Len(fetching.responses) : fetching.responses[k] = "429"

\* C40: card retrieval terminates under rate limiting. The call makes at most
\* max_retries retries, that is max_retries + 1 requests; before the k-th retry it
\* waits 2^(k-1) seconds, each wait twice the one before; when every request is
\* answered with HTTP 429 it returns no card after exactly max_retries + 1
\* requests; and every call returns.
RetryTerminates ==
    /\ [](pc = "fetch" =>
              /\ fetching.requests <= fetching.max_retries + 1
              /\ fetching.retry_count <= fetching.max_retries
              /\ Len(fetching.waits) = fetching.retry_count + (IF fetching.at = "sleep" THEN 1 ELSE 0)
              /\ \A k \in 1..Len(fetching.waits) : fetching.waits[k] = 2 ^ (k - 1)
              /\ \A k \in 2..Len(fetching.waits) : fetching.waits[k] = 2 * fetching.waits[k - 1])
    /\ []((pc = "fetch" /\ fetching.at = "returned" /\ fetching.requests >= 1 /\ AlwaysLimited) =>
              /\ fetching.result = "None"
              /\ fetching.requests = fetching.max_retries + 1
              /\ Len(fetching.waits) = fetching.max_retries)
    /\ (pc = "fetch" /\ fetching.at = "call") ~> (fetching.at = "returned")

\* the call with the default max_retries has returned no card after six requests
\* that were all answered with HTTP 429, and five waits of 1, 2, 4, 8 and 16 seconds
RetryTerminatesWitness ==
    /\ pc = "fetch"
    /\ fetching.at = "returned"
    /\ fetching.max_retries = DefaultMaxRetries
    /\ AlwaysLimited
    /\ fetching.requests = 6
    /\ fetching.waits = <<1, 2, 4, 8, 16>>
    /\ fetching.result = "None"

====
